---------------------------- MODULE Spec2Model ----------------------------
(***************************************************************************)
(* A model of the starks repository (src/starks/stark.py, src/starks/air.py, *)
(* src/starks/poly_utils.py and src/misc/commitment.py).                   *)
(*                                                                         *)
(* The repository is a library: its operations are the functions a caller  *)
(* invokes.  Each operation is one action that runs the whole function on  *)
(* arguments drawn from small sets and stores what the function returns or *)
(* the exception it raises.  There are seven specifications, one per group *)
(* of operations:                                                          *)
(*   SpecPoly   poly_utils.multi_inv, zpoly and the Lagrange               *)
(*              interpolations; the arithmetic of field elements           *)
(*   SpecAIR    air.get_computational_trace, the AIR constructor and the   *)
(*              AIR's monotone circuit                                     *)
(*   Spec       the entry points stark.mk_proof and stark.verify_proof     *)
(*   SpecFn     the functions of stark.py that mk_proof and verify_proof   *)
(*              are built from, called directly                            *)
(*   SpecLeaf   stark.merkelize_polynomials and the decoding of a leaf     *)
(*   SpecCommit the bit commitment scheme of misc/commitment.py            *)
(*   SpecMv     poly_utils.construct_multivariate_dirac_delta and          *)
(*              construct_multivariate_coefficients                        *)
(*                                                                         *)
(* Field elements are integers in 0..p-1.  The 256-bit modulus of stark.py *)
(* is scaled down to the FFT-friendly prime 17 = 2^4 + 1, and the limit    *)
(* 2^32 on the evaluation domain to 2^4 accordingly.                       *)
(***************************************************************************)
EXTENDS Integers, Sequences, FiniteSets, TLC

VARIABLES
  pu,     \* the poly_utils call in progress: field, arguments, result
  tr,     \* a call of air.get_computational_trace or of a method of the AIR
  air,    \* the AIR object under construction / constructed
  args,   \* the arguments the entry points of stark.py are called with
  mk,     \* the outcome of mk_proof(args)
  vf,     \* the outcome of verify_proof(args)
  fn,     \* the objects the functions of stark.py have produced so far
  lf,     \* the trees of merkelize_polynomials and a leaf decoded from them
  cs,     \* a BBSBitCommitmentScheme object and the commitments it made
  mv      \* the poly_utils call that builds a multivariate polynomial

vars == <<pu, tr, air, args, mk, vf, fn, lf, cs, mv>>

\* The value of a variable that a specification does not use.
Idle == [op |-> "idle"]

--------------------------------------------------------------------------
(***************************************************************************)
(* Bounds of the model.                                                    *)
(***************************************************************************)
\* Longest vector handed to multi_inv.
MaxLen == 3

\* The prime fields the poly_utils operations are exercised over.
Primes == {3, 5}

\* The prime fields the AIR operations are exercised over.
AirPrimes == {5, 7}

\* Largest number of steps handed to air.get_computational_trace.
MaxTraceSteps == 6

\* Largest log2-length t handed to the AIR constructor.
MaxT == 3

--------------------------------------------------------------------------
(***************************************************************************)
(* Prime-field arithmetic (starks.modp.IntegersModP, starks.poly_utils     *)
(* PrimeField).  An element is its representative in 0..p-1.               *)
(***************************************************************************)
FAdd(p, a, b) == (a + b) % p
FSub(p, a, b) == (a - b) % p
FMul(p, a, b) == (a * b) % p

RECURSIVE FExp(_, _, _)
FExp(p, a, n) ==
  IF n = 0 THEN 1 % p
  ELSE IF n % 2 = 0 THEN LET h == FExp(p, a, n \div 2) IN (h * h) % p
  ELSE (a * FExp(p, a, n - 1)) % p

\* Extended Euclid: <<g, x, y>> with a*x + b*y = g = gcd(a, b).
RECURSIVE ExtGcd(_, _)
ExtGcd(a, b) ==
  IF b = 0 THEN <<a, 1, 0>>
  ELSE LET r == ExtGcd(b, a % b)
       IN <<r[1], r[3], r[2] - (a \div b) * r[3]>>

\* The inverse of a nonzero element.
FInv(p, a) == ExtGcd(a % p, p)[2] % p

FDiv(p, a, b) == FMul(p, a, FInv(p, b))

--------------------------------------------------------------------------
(***************************************************************************)
(* poly_utils.multi_inv: many inverses for one field inversion.            *)
(***************************************************************************)
\* Lines 306-312: partials[k] is the product of the first k values, a zero
\* value counting as 1.  The sequence is 1-indexed here: partials[k+1].
RECURSIVE multi_inv_partials(_, _, _)
multi_inv_partials(p, values, k) ==
  IF k = 0 THEN <<1 % p>>
  ELSE LET prev == multi_inv_partials(p, values, k - 1)
           mul_value == IF values[k] = 0 THEN 1 ELSE values[k]
       IN Append(prev, FMul(p, prev[k], mul_value))

\* Line 317: the output for one value, given the running inverse.
multi_inv_output(p, partial, inv, val) ==
  IF val # 0 THEN FMul(p, partial, inv) ELSE 0

\* A sweep that forgets to strip the value from the running inverse.
multi_inv_next_inv_stale(p, inv, val) == inv

\* Lines 318-319: the running inverse after one backward step.
multi_inv_next_inv(p, inv, val) ==
  IF val # 0 THEN FMul(p, inv, val) ELSE inv

\* Lines 316-319: the backward sweep from index i down to 1.
RECURSIVE multi_inv_sweep(_, _, _, _, _, _)
multi_inv_sweep(p, values, partials, i, inv, outputs) ==
  IF i = 0 THEN outputs
  ELSE multi_inv_sweep(p, values, partials, i - 1,
         multi_inv_next_inv(p, inv, values[i]),
         [outputs EXCEPT ![i] = multi_inv_output(p, partials[i], inv, values[i])])

\* Lines 301-320.
multi_inv(p, values) ==
  LET n == Len(values)
      partials == multi_inv_partials(p, values, n)
      inv == FInv(p, partials[n + 1])
  IN multi_inv_sweep(p, values, partials, n, inv, [i \in 1..n |-> 0])

--------------------------------------------------------------------------
(***************************************************************************)
(* Univariate polynomials over a prime field (starks.polynomial): the      *)
(* coefficients in ascending degree, reduced, without trailing zeros.      *)
(***************************************************************************)
\* An element that keeps the integer it was made from.
IntegersModP_unreduced(p, n) == n

\* IntegersModP(p)(n): the element of the integer n.
IntegersModP(p, n) == n % p

\* a / b for field elements; the inverse of zero is rejected.
FTrueDiv(p, a, b) ==
  IF b % p = 0 THEN [exc |-> "ZeroDivisionError", val |-> 0]
  ELSE [exc |-> "none", val |-> FDiv(p, a % p, b % p)]

RECURSIVE Poly_strip(_)
Poly_strip(c) ==
  IF Len(c) > 0 /\ c[Len(c)] = 0 THEN Poly_strip(SubSeq(c, 1, Len(c) - 1))
  ELSE c

\* polynomials_over(field).factory(coefficients).
polysOver(p, coefficients) ==
  Poly_strip([i \in 1..Len(coefficients) |-> IntegersModP(p, coefficients[i])])

RECURSIVE Poly_call_from(_, _, _, _)
Poly_call_from(p, poly, x, k) ==
  IF k > Len(poly) THEN 0
  ELSE (poly[k] + x * Poly_call_from(p, poly, x, k + 1)) % p

\* poly(x): the value of the polynomial at x.
Poly_call(p, poly, x) == Poly_call_from(p, poly, IntegersModP(p, x), 1)

\* Long division: the quotient once the remainder is shorter than b.
RECURSIVE Poly_divmod(_, _, _, _)
Poly_divmod(p, remainder, b, quotient) ==
  IF Len(remainder) < Len(b) THEN quotient
  ELSE LET shift == Len(remainder) - Len(b)
           c == FDiv(p, remainder[Len(remainder)], b[Len(b)])
           sub == [k \in 1..Len(remainder) |->
                     IF k > shift THEN (remainder[k] - c * b[k - shift]) % p
                     ELSE remainder[k]]
       IN Poly_divmod(p, Poly_strip(sub), b, [quotient EXCEPT ![shift + 1] = c])

\* a / b for polynomials, b not zero: the quotient of the long division.
Poly_truediv(p, a, b) ==
  IF Len(a) < Len(b) THEN <<>>
  ELSE Poly_strip(Poly_divmod(p, a, b, [k \in 1..(Len(a) - Len(b) + 1) |-> 0]))

--------------------------------------------------------------------------
(***************************************************************************)
(* poly_utils.zpoly and the Lagrange interpolations.                       *)
(***************************************************************************)
\* A pass that adds root[j + 1] * x where the code subtracts it.
zpoly_step_added(p, root, x) ==
  LET r == <<0>> \o root
  IN [j \in 1..Len(r) |->
        IF j < Len(r) THEN (r[j] + r[j + 1] * x) % p ELSE r[j]]

\* Lines 330-332: one pass of the loop over the roots.  Entry j reads entry
\* j + 1 before the pass reaches it.
zpoly_step(p, root, x) ==
  LET r == <<0>> \o root
  IN [j \in 1..Len(r) |->
        IF j < Len(r) THEN (r[j] - r[j + 1] * x) % p ELSE r[j]]

\* Lines 328-332: root after the first k roots.
RECURSIVE zpoly_loop(_, _, _)
zpoly_loop(p, roots, k) ==
  IF k = 0 THEN <<IntegersModP(p, 1)>>
  ELSE zpoly_step(p, zpoly_loop(p, roots, k - 1), roots[k])

\* zpoly(field, roots).
zpoly(p, roots) == polysOver(p, zpoly_loop(p, roots, Len(roots)))

\* Lines 361-367: b[j] after the points 1..i have been added.
RECURSIVE lagrange_interp_sum(_, _, _, _, _, _)
lagrange_interp_sum(p, ys, nums, invdenoms, j, i) ==
  IF i = 0 THEN 0
  ELSE LET yslice == (ys[i] * invdenoms[i]) % p
           rest == lagrange_interp_sum(p, ys, nums, invdenoms, j, i - 1)
       IN IF nums[i][j] # 0 /\ ys[i] % p # 0
          THEN (rest + nums[i][j] * yslice) % p
          ELSE rest

\* lagrange_interp(field, xs, ys).
lagrange_interp(p, xs, ys) ==
  LET root == zpoly(p, xs)
      nums == [i \in 1..Len(xs) |->
                 Poly_truediv(p, root, polysOver(p, <<-xs[i], 1>>))]
      denoms == [i \in 1..Len(xs) |-> Poly_call(p, nums[i], xs[i])]
      invdenoms == multi_inv(p, denoms)
  IN IF Len(root) # Len(ys) + 1 THEN [exc |-> "AssertionError", val |-> <<>>]
     ELSE [exc |-> "none",
           val |-> polysOver(p, [j \in 1..Len(ys) |->
                     lagrange_interp_sum(p, ys, nums, invdenoms, j, Len(xs))])]

\* lagrange_interp_4(field, xs, ys).
lagrange_interp_4(p, xs, ys) ==
  LET x01 == xs[1] * xs[2]
      x02 == xs[1] * xs[3]
      x03 == xs[1] * xs[4]
      x12 == xs[2] * xs[3]
      x13 == xs[2] * xs[4]
      x23 == xs[3] * xs[4]
      eq0 == polysOver(p, <<-x12 * xs[4], x12 + x13 + x23, -xs[2] - xs[3] - xs[4], 1>>)
      eq1 == polysOver(p, <<-x02 * xs[4], x02 + x03 + x23, -xs[1] - xs[3] - xs[4], 1>>)
      eq2 == polysOver(p, <<-x01 * xs[4], x01 + x03 + x13, -xs[1] - xs[2] - xs[4], 1>>)
      eq3 == polysOver(p, <<-x01 * xs[3], x01 + x02 + x12, -xs[1] - xs[2] - xs[3], 1>>)
      e0 == Poly_call(p, eq0, xs[1])
      e1 == Poly_call(p, eq1, xs[2])
      e2 == Poly_call(p, eq2, xs[3])
      e3 == Poly_call(p, eq3, xs[4])
      e01 == (e0 * e1) % p
      e23 == (e2 * e3) % p
      invall == FTrueDiv(p, 1, e01 * e23)
      inv_y0 == (((ys[1] * invall.val) % p) * ((e1 * e23) % p)) % p
      inv_y1 == (((ys[2] * invall.val) % p) * ((e0 * e23) % p)) % p
      inv_y2 == (((ys[3] * invall.val) % p) * ((e01 * e3) % p)) % p
      inv_y3 == (((ys[4] * invall.val) % p) * ((e01 * e2) % p)) % p
  IN IF Len(xs) < 4 THEN [exc |-> "IndexError", val |-> <<>>]
     ELSE IF invall.exc # "none" THEN [exc |-> invall.exc, val |-> <<>>]
     ELSE IF Len(ys) < 4 THEN [exc |-> "IndexError", val |-> <<>>]
     ELSE [exc |-> "none",
           val |-> polysOver(p, [i \in 1..4 |->
                     eq0[i] * inv_y0 + eq1[i] * inv_y1
                       + eq2[i] * inv_y2 + eq3[i] * inv_y3])]

\* The two-point interpolation with the scalings of the two points
\* exchanged.
lagrange_interp_2_swapped(p, xs, ys) ==
  LET eq0 == polysOver(p, <<-xs[2], 1>>)
      eq1 == polysOver(p, <<-xs[1], 1>>)
      e0 == Poly_call(p, eq0, xs[1])
      e1 == Poly_call(p, eq1, xs[2])
      invall == FTrueDiv(p, 1, e0 * e1)
      inv_y0 == (((ys[1] * invall.val) % p) * e0) % p
      inv_y1 == (((ys[2] * invall.val) % p) * e1) % p
  IN IF invall.exc # "none" THEN [exc |-> invall.exc, val |-> <<>>]
     ELSE [exc |-> "none",
           val |-> polysOver(p, [i \in 1..2 |->
                     eq0[i] * inv_y0 + eq1[i] * inv_y1])]

\* lagrange_interp_2(field, xs, ys): the line through two points.
lagrange_interp_2(p, xs, ys) ==
  LET eq0 == polysOver(p, <<-xs[2], 1>>)
      eq1 == polysOver(p, <<-xs[1], 1>>)
      e0 == Poly_call(p, eq0, xs[1])
      e1 == Poly_call(p, eq1, xs[2])
      invall == FTrueDiv(p, 1, e0 * e1)
      inv_y0 == (((ys[1] * invall.val) % p) * e1) % p
      inv_y1 == (((ys[2] * invall.val) % p) * e0) % p
  IN IF invall.exc # "none" THEN [exc |-> invall.exc, val |-> <<>>]
     ELSE [exc |-> "none",
           val |-> polysOver(p, [i \in 1..2 |->
                     eq0[i] * inv_y0 + eq1[i] * inv_y1])]

--------------------------------------------------------------------------
(***************************************************************************)
(* SpecPoly: one call of a poly_utils function, or one round of field      *)
(* arithmetic.  pu holds the arguments, then the result or the exception.  *)
(***************************************************************************)
Vectors(p) == UNION {[1..n -> 0..(p - 1)] : n \in 0..MaxLen}

\* The y coordinates handed to the interpolations of three points or more:
\* the interpolant is linear in ys, and these span every ys.
YValues == {0, 1}

\* The integers field elements are made from: below 0, in range and above p.
Integers_for(p) == (0 - p)..(2 * p + 1)

PolyInit ==
  /\ \/ \E p \in Primes : \E v \in Vectors(p) :
          pu = [op |-> "multi_inv", p |-> p, values |-> v, done |-> FALSE,
                exc |-> "none", out |-> <<>>]
     \/ \E p \in Primes : \E v \in Vectors(p) :
          pu = [op |-> "zpoly", p |-> p, roots |-> v, done |-> FALSE,
                exc |-> "none", out |-> <<>>]
     \/ \E p \in Primes : \E n \in 0..MaxLen :
        \E xs \in [1..n -> 0..(p - 1)] : \E ys \in [1..n -> YValues] :
          pu = [op |-> "lagrange_interp", p |-> p, xs |-> xs, ys |-> ys,
                done |-> FALSE, exc |-> "none", out |-> <<>>]
     \/ \E p \in Primes :
        \E xs \in [1..2 -> 0..(p - 1)] : \E ys \in [1..2 -> 0..(p - 1)] :
          pu = [op |-> "lagrange_interp_2", p |-> p, xs |-> xs, ys |-> ys,
                done |-> FALSE, exc |-> "none", out |-> <<>>]
     \/ \E p \in Primes :
        \E xs \in [1..4 -> 0..(p - 1)] : \E ys \in [1..4 -> YValues] :
          pu = [op |-> "lagrange_interp_4", p |-> p, xs |-> xs, ys |-> ys,
                done |-> FALSE, exc |-> "none", out |-> <<>>]
     \/ \E p \in Primes \cup AirPrimes :
        \E a \in Integers_for(p) : \E b \in Integers_for(p) :
          pu = [op |-> "IntegersModP", p |-> p, a |-> a, b |-> b,
                done |-> FALSE, exc |-> "none", out |-> <<>>]
  /\ tr = Idle /\ air = Idle /\ args = Idle /\ mk = Idle /\ vf = Idle /\ fn = Idle
  /\ lf = Idle /\ cs = Idle /\ mv = Idle

PolyKeep == UNCHANGED <<tr, air, args, mk, vf, fn, lf, cs, mv>>

MultiInv ==
  /\ pu.op = "multi_inv" /\ ~pu.done
  /\ pu' = [pu EXCEPT !.done = TRUE, !.out = multi_inv(pu.p, pu.values)]
  /\ PolyKeep

Zpoly ==
  /\ pu.op = "zpoly" /\ ~pu.done
  /\ pu' = [pu EXCEPT !.done = TRUE, !.out = zpoly(pu.p, pu.roots)]
  /\ PolyKeep

LagrangeInterp ==
  /\ pu.op = "lagrange_interp" /\ ~pu.done
  /\ LET r == lagrange_interp(pu.p, pu.xs, pu.ys)
     IN pu' = [pu EXCEPT !.done = TRUE, !.exc = r.exc, !.out = r.val]
  /\ PolyKeep

LagrangeInterp2 ==
  /\ pu.op = "lagrange_interp_2" /\ ~pu.done
  /\ LET r == lagrange_interp_2(pu.p, pu.xs, pu.ys)
     IN pu' = [pu EXCEPT !.done = TRUE, !.exc = r.exc, !.out = r.val]
  /\ PolyKeep

LagrangeInterp4 ==
  /\ pu.op = "lagrange_interp_4" /\ ~pu.done
  /\ LET r == lagrange_interp_4(pu.p, pu.xs, pu.ys)
     IN pu' = [pu EXCEPT !.done = TRUE, !.exc = r.exc, !.out = r.val]
  /\ PolyKeep

\* The operations of test_modpy.py on the elements x of a and y of b; the
\* plain integer b is cast to an element before it is added or multiplied.
FieldArithmetic ==
  /\ pu.op = "IntegersModP" /\ ~pu.done
  /\ LET x == IntegersModP(pu.p, pu.a)
         y == IntegersModP(pu.p, pu.b)
         inverse == FTrueDiv(pu.p, 1, x)
     IN pu' = [pu EXCEPT !.done = TRUE, !.exc = inverse.exc,
                 !.out = [x |-> x, y |-> y, eq |-> (x = y),
                          sum |-> FAdd(pu.p, x, y),
                          prod |-> FMul(pu.p, x, y),
                          sum_int |-> FAdd(pu.p, x, IntegersModP(pu.p, pu.b)),
                          prod_int |-> FMul(pu.p, x, IntegersModP(pu.p, pu.b)),
                          inverse |-> inverse.val]]
  /\ PolyKeep

PolyNext ==
  \/ MultiInv
  \/ Zpoly
  \/ LagrangeInterp
  \/ LagrangeInterp2
  \/ LagrangeInterp4
  \/ FieldArithmetic

SpecPoly == PolyInit /\ [][PolyNext]_vars

NoZero(values) == \A i \in 1..Len(values) : values[i] # 0

\* C10: for every vector v with no zero entry, multi_inv returns a vector of
\* the same length whose i-th entry times v[i] is 1 in the field.
C10_MultiInvInverts ==
  (pu.op = "multi_inv" /\ pu.done /\ NoZero(pu.values)) =>
     /\ Len(pu.out) = Len(pu.values)
     /\ \A i \in 1..Len(pu.values) : (pu.out[i] * pu.values[i]) % pu.p = 1

\* A call on a zero-free vector of three entries, not all equal, has returned.
C10_Witness ==
  /\ pu.op = "multi_inv" /\ pu.done /\ NoZero(pu.values)
  /\ pu.p = 5 /\ Len(pu.values) = 3
  /\ pu.values[1] # pu.values[2]

\* C11: multi_inv applied to a vector that contains a zero entry is rejected
\* with a division-by-zero error and returns no result vector.
C11_ZeroEntryRejected ==
  (pu.op = "multi_inv" /\ pu.done /\ ~NoZero(pu.values)) =>
     /\ pu.exc = "ZeroDivisionError"
     /\ pu.out = <<>>

Distinct(xs) == \A i, j \in 1..Len(xs) : i # j => xs[i] # xs[j]

IsLagrange(op) == op \in {"lagrange_interp", "lagrange_interp_2", "lagrange_interp_4"}

\* C12: for pairwise distinct xs and any ys, the polynomial that
\* lagrange_interp, lagrange_interp_2 or lagrange_interp_4 returns takes the
\* value ys[i] at xs[i], for every i.
C12_InterpolantPassesThroughPoints ==
  (IsLagrange(pu.op) /\ pu.done /\ Distinct(pu.xs)) =>
     /\ pu.exc = "none"
     /\ \A i \in 1..Len(pu.xs) :
          Poly_call(pu.p, pu.out, pu.xs[i]) = pu.ys[i] % pu.p

\* The general interpolation has returned for three distinct points whose
\* y coordinates are not all the same.
C12_Witness ==
  /\ pu.op = "lagrange_interp" /\ pu.done /\ Distinct(pu.xs)
  /\ Len(pu.xs) = 3 /\ pu.ys[1] # pu.ys[2] /\ pu.ys[3] # 0
  /\ Len(pu.out) = 3

\* C13: whenever two entries of xs are equal, lagrange_interp,
\* lagrange_interp_2 and lagrange_interp_4 fail with an error and return no
\* polynomial.
C13_DuplicateXsRejected ==
  (IsLagrange(pu.op) /\ pu.done /\ ~Distinct(pu.xs)) =>
     /\ pu.exc # "none"
     /\ pu.out = <<>>

\* C14: zpoly of n roots, duplicates allowed, is monic of degree exactly n
\* and is 0 at every listed root; for no roots it is the constant 1.
C14_ZpolyMonicWithRoots ==
  (pu.op = "zpoly" /\ pu.done) =>
     LET n == Len(pu.roots) IN
     /\ Len(pu.out) = n + 1
     /\ pu.out[n + 1] = 1
     /\ \A i \in 1..n : Poly_call(pu.p, pu.out, pu.roots[i]) = 0
     /\ (n = 0 => pu.out = <<1>>)

\* zpoly has returned for three roots, two of them equal.
C14_Witness ==
  /\ pu.op = "zpoly" /\ pu.done /\ Len(pu.roots) = 3
  /\ pu.roots[1] = pu.roots[2] /\ pu.roots[2] # pu.roots[3]
  /\ pu.roots[1] # 0

\* C16: elements are equal iff their integers are congruent mod p; sums and
\* products are the integer sum and product reduced mod p, also when one
\* operand is a plain integer; every nonzero a has a * (1 / a) = 1.
C16_ElementsAreIntegersModP ==
  (pu.op = "IntegersModP" /\ pu.done) =>
     /\ pu.out.x \in 0..(pu.p - 1)
     /\ pu.out.eq <=> ((pu.a - pu.b) % pu.p = 0)
     /\ pu.out.sum = (pu.a + pu.b) % pu.p
     /\ pu.out.prod = (pu.a * pu.b) % pu.p
     /\ pu.out.sum_int = (pu.a + pu.b) % pu.p
     /\ pu.out.prod_int = (pu.a * pu.b) % pu.p
     /\ (pu.a % pu.p # 0) =>
           /\ pu.exc = "none"
           /\ (pu.out.x * pu.out.inverse) % pu.p = 1

\* The elements of 10 and 3 modulo 7 have been compared and 1 / 3 = 5 found.
C16_Witness ==
  /\ pu.op = "IntegersModP" /\ pu.done
  /\ pu.p = 7 /\ pu.a = 10 /\ pu.b = 3
  /\ pu.out.eq /\ pu.out.inverse = 5

--------------------------------------------------------------------------
(***************************************************************************)
(* Multivariate polynomials (starks.multivariate_polynomial): a sequence   *)
(* of terms, each a coefficient c and one exponent per variable e.         *)
(***************************************************************************)
RECURSIVE MonomialEval(_, _, _, _)
MonomialEval(p, e, x, i) ==
  IF i = 0 THEN 1 % p
  ELSE FMul(p, MonomialEval(p, e, x, i - 1), FExp(p, x[i], e[i]))

RECURSIVE MvEvalTerms(_, _, _, _)
MvEvalTerms(p, poly, x, k) ==
  IF k = 0 THEN 0
  ELSE FAdd(p, MvEvalTerms(p, poly, x, k - 1),
            FMul(p, poly[k].c, MonomialEval(p, poly[k].e, x, Len(poly[k].e))))

\* poly(x): the value of the polynomial at the vector x.
MvEval(p, poly, x) == MvEvalTerms(p, poly, x, Len(poly))

RECURSIVE SumSeq(_, _)
SumSeq(e, i) == IF i = 0 THEN 0 ELSE SumSeq(e, i - 1) + e[i]

RECURSIVE MaxDegree(_, _)
MaxDegree(poly, k) ==
  IF k = 0 THEN 0
  ELSE LET d == SumSeq(poly[k].e, Len(poly[k].e))
           m == MaxDegree(poly, k - 1)
       IN IF d > m THEN d ELSE m

\* poly.degree(): the total degree.
MvDegree(poly) == MaxDegree(poly, Len(poly))

Term(c, e) == [c |-> c, e |-> e]

\* Step polynomials in one variable: X1 + 1, 2 X1, X1^3 + 2.
StepPolys1 ==
  { << <<Term(1, <<1>>), Term(1, <<0>>)>> >>,
    << <<Term(2, <<1>>)>> >>,
    << <<Term(1, <<3>>), Term(2, <<0>>)>> >> }

\* The Fibonacci step of test_air.py: (X2, X1 + X2).
FibStep == << <<Term(1, <<0, 1>>)>>, <<Term(1, <<1, 0>>), Term(1, <<0, 1>>)>> >>

\* Step polynomials in two variables: Fibonacci, (X1 X2, X1), (X1 + X2, X2^2 + 1).
StepPolys2 ==
  { FibStep,
    << <<Term(1, <<1, 1>>)>>, <<Term(1, <<1, 0>>)>> >>,
    << <<Term(1, <<1, 0>>), Term(1, <<0, 1>>)>>, <<Term(1, <<0, 2>>), Term(1, <<0, 0>>)>> >> }

StepPolys(width) == IF width = 1 THEN StepPolys1 ELSE StepPolys2

RECURSIVE Pow2(_)
Pow2(n) == IF n = 0 THEN 1 ELSE 2 * Pow2(n - 1)

--------------------------------------------------------------------------
(***************************************************************************)
(* air.py: the computational trace and the AIR object.                     *)
(***************************************************************************)
\* A loop that applies the step once too often.
air_trace_iterations_extra(steps) == steps

\* Line 45: range(steps - 1), the number of iterations of the loop.
air_trace_iterations(steps) == IF steps - 1 > 0 THEN steps - 1 ELSE 0

\* Lines 44-48: the trace after k iterations of the loop.
RECURSIVE air_trace_loop(_, _, _, _, _)
air_trace_loop(p, inp, k, width, step_polys) ==
  IF k = 0 THEN <<inp>>
  ELSE LET computational_trace == air_trace_loop(p, inp, k - 1, width, step_polys)
           last == computational_trace[Len(computational_trace)]
           next_state == [i \in 1..width |-> MvEval(p, step_polys[i], last)]
       IN Append(computational_trace, next_state)

\* Lines 30-51: the pair (computational_trace, output).
air_get_computational_trace(p, inp, steps, width, step_polys) ==
  LET computational_trace ==
        air_trace_loop(p, inp, air_trace_iterations(steps), width, step_polys)
  IN [computational_trace |-> computational_trace,
      output |-> computational_trace[Len(computational_trace)]]

\* Line 98: the number of trace states of an AIR of log2-length t.
air_T(t) == Pow2(t) - 1

\* Lines 159-182: polys[j] = Y_j - step_polys[j](X) over the 2w variables
\* X_1..X_w, Y_1..Y_w.
generate_constraint_polynomials(p, width, step_polys) ==
  LET zeros == [i \in 1..width |-> 0]
      Y(j) == Term(1, zeros \o [i \in 1..width |-> IF i = j THEN 1 ELSE 0])
      Neg(term) == Term((p - term.c) % p, term.e \o zeros)
  IN [j \in 1..width |->
        <<Y(j)>> \o [k \in 1..Len(step_polys[j]) |-> Neg(step_polys[j][k])]]

\* Line 114: the witness W[j][i] = computational_trace[i][j].
generate_witness(computational_trace, T, w) ==
  [j \in 1..w |-> [i \in 1..T |-> computational_trace[i][j]]]

\* The circuit with the loop of line 142 left out: a step is consistent
\* when its last constraint is.
generate_monotone_circuit_last_only(p, polys, computational_trace, T, width) ==
  LET W == generate_witness(computational_trace, T, width)
      output_eval == [i \in 1..(T - 1) |->
         LET Xs == [j \in 1..width |-> W[j][i]]
             Ys == [j \in 1..width |-> W[j][i + 1]]
         IN [j \in 1..width |-> MvEval(p, polys[j], Xs \o Ys) = 0]]
      output == [i \in 1..(T - 1) |-> output_eval[i][width]]
  IN \A i \in 1..(T - 1) : output[i]

\* Lines 124-150: the AND over all steps of the AND over all constraints.
generate_monotone_circuit(p, polys, computational_trace, T, width) ==
  LET W == generate_witness(computational_trace, T, width)
      output_eval == [i \in 1..(T - 1) |->
         LET Xs == [j \in 1..width |-> W[j][i]]
             Ys == [j \in 1..width |-> W[j][i + 1]]
         IN [j \in 1..width |-> MvEval(p, polys[j], Xs \o Ys) = 0]]
      output == [i \in 1..(T - 1) |->
         output_eval[i][width] /\ \A j \in 1..(width - 1) : output_eval[i][j]]
  IN \A i \in 1..(T - 1) : output[i]

\* Lines 152-153.
get_C_degree(polys, width) ==
  LET degs == {MvDegree(polys[j]) : j \in 1..width}
  IN CHOOSE d \in degs : \A e \in degs : e <= d

\* Tuples that count ind from 1.
generate_boundary_constraints_from_one(inp, w) ==
  [j \in 1..w |-> <<0, j, inp[j]>>]

\* Lines 116-122: the tuples (0, ind, inp[ind]), ind counted from 0.
generate_boundary_constraints(inp, w) ==
  [j \in 1..w |-> <<0, j - 1, inp[j]>>]

\* Lines 87-110: the AIR constructor.
AIR_init(field, width, inp, t, step_polys) ==
  LET T == air_T(t)
      got == air_get_computational_trace(field, inp, T, width, step_polys)
      polys == generate_constraint_polynomials(field, width, step_polys)
      C == generate_monotone_circuit(field, polys, got.computational_trace, T, width)
      d == 10
  IN IF get_C_degree(polys, width) <= Pow2(d)
     THEN [op |-> "AIR", done |-> TRUE, exc |-> "none",
           field |-> field, width |-> width, inp |-> inp, t |-> t,
           step_polys |-> step_polys, T |-> T,
           computational_trace |-> got.computational_trace, output |-> got.output,
           polys |-> polys, C |-> C, d |-> d,
           B |-> generate_boundary_constraints(inp, width)]
     ELSE [op |-> "AIR", done |-> TRUE, exc |-> "AssertionError",
           field |-> field, width |-> width, inp |-> inp, t |-> t,
           step_polys |-> step_polys, T |-> T,
           computational_trace |-> got.computational_trace, output |-> got.output,
           polys |-> polys, C |-> C, d |-> d, B |-> <<>>]

--------------------------------------------------------------------------
(***************************************************************************)
(* SpecAIR: one call of air.get_computational_trace, or one construction   *)
(* of an AIR.                                                              *)
(***************************************************************************)
States(p, width) == [1..width -> 0..(p - 1)]

AirInit ==
  /\ \E p \in AirPrimes, width \in {1, 2} :
       \E inp \in States(p, width), step_polys \in StepPolys(width) :
          \/ /\ \E steps \in 1..MaxTraceSteps :
                  tr = [op |-> "trace", done |-> FALSE, field |-> p, inp |-> inp,
                        steps |-> steps, width |-> width, step_polys |-> step_polys,
                        computational_trace |-> <<>>, output |-> <<>>]
             /\ air = Idle
          \/ /\ \E t \in 0..MaxT :
                  air = [op |-> "AIR", done |-> FALSE, field |-> p, width |-> width,
                         inp |-> inp, t |-> t, step_polys |-> step_polys]
             /\ tr = Idle
  /\ pu = Idle /\ args = Idle /\ mk = Idle /\ vf = Idle /\ fn = Idle
  /\ lf = Idle /\ cs = Idle /\ mv = Idle

GetComputationalTrace ==
  /\ tr.op = "trace" /\ ~tr.done
  /\ LET got == air_get_computational_trace(tr.field, tr.inp, tr.steps, tr.width,
                                            tr.step_polys)
     IN tr' = [tr EXCEPT !.done = TRUE,
                         !.computational_trace = got.computational_trace,
                         !.output = got.output]
  /\ UNCHANGED <<pu, air, args, mk, vf, fn, lf, cs, mv>>

NewAIR ==
  /\ air.op = "AIR" /\ ~air.done
  /\ air' = AIR_init(air.field, air.width, air.inp, air.t, air.step_polys)
  /\ UNCHANGED <<pu, tr, args, mk, vf, fn, lf, cs, mv>>

\* The constraints a caller hands to generate_monotone_circuit: those of
\* any step polynomials of the AIR's width, entry by entry.
CircuitStepPolys(width) ==
  IF width = 1 THEN StepPolys1
  ELSE {<<s[1], r[2]>> : s \in StepPolys2, r \in StepPolys2}

\* air.generate_monotone_circuit(polys) on a constructed AIR, polys being
\* the constraint polynomials of some step polynomials.
GenerateMonotoneCircuit ==
  /\ air.op = "AIR" /\ air.done /\ air.exc = "none"
  /\ tr = Idle
  /\ \E step_polys \in CircuitStepPolys(air.width) :
       LET polys == generate_constraint_polynomials(air.field, air.width,
                                                    step_polys)
       IN tr' = [op |-> "circuit", polys |-> polys,
                 result |-> generate_monotone_circuit(air.field, polys,
                              air.computational_trace, air.T, air.width)]
  /\ UNCHANGED <<pu, air, args, mk, vf, fn, lf, cs, mv>>

AirNext == GetComputationalTrace \/ NewAIR \/ GenerateMonotoneCircuit

SpecAIR == AirInit /\ [][AirNext]_vars

\* C8: for steps >= 1, get_computational_trace returns exactly `steps` states
\* of length width, the first is inp, state i+1 is the step polynomials
\* applied to state i, and output is the last state; for the step (X2, X1+X2)
\* and input [0, 1] the trace is the Fibonacci pairs [0,1],[1,1],[1,2],[2,3],[3,5].
C8_TraceIsIteratedStep ==
  (tr.op = "trace" /\ tr.done) =>
    LET trace == tr.computational_trace IN
     /\ Len(trace) = tr.steps
     /\ \A i \in 1..tr.steps : Len(trace[i]) = tr.width
     /\ trace[1] = tr.inp
     /\ \A i \in 1..(tr.steps - 1) : \A j \in 1..tr.width :
           trace[i + 1][j] = MvEval(tr.field, tr.step_polys[j], trace[i])
     /\ tr.output = trace[tr.steps]
     /\ (tr.step_polys = FibStep /\ tr.inp = <<0, 1>> /\ tr.field = 7 /\ tr.steps >= 5) =>
           SubSeq(trace, 1, 5) = << <<0, 1>>, <<1, 1>>, <<1, 2>>, <<2, 3>>, <<3, 5>> >>

\* The Fibonacci trace of five or more states has been computed.
C8_Witness ==
  /\ tr.op = "trace" /\ tr.done
  /\ tr.step_polys = FibStep /\ tr.inp = <<0, 1>> /\ tr.field = 7 /\ tr.steps >= 5
  /\ tr.computational_trace[5] = <<3, 5>>

\* C9: for every AIR constructed with log2-length t, the number of states in
\* computational_trace is T = 2^t, a power of two.
C9_TraceLengthIsPowerOfTwo ==
  (air.op = "AIR" /\ air.done) =>
     /\ air.T = Pow2(air.t)
     /\ Len(air.computational_trace) = Pow2(air.t)

\* C15: the boundary constraints B of an AIR of width w are exactly the w
\* tuples (0, j, inp[j]) for j = 0..w-1, in order, and the AIR's own trace
\* satisfies each: computational_trace[0][j] = inp[j].
C15_BoundaryConstraintsFixInput ==
  (air.op = "AIR" /\ air.done /\ air.exc = "none") =>
     /\ Len(air.B) = air.width
     /\ \A j \in 1..air.width :
          /\ air.B[j] = <<0, j - 1, air.inp[j]>>
          /\ air.computational_trace[air.B[j][1] + 1][air.B[j][2] + 1]
               = air.B[j][3]

\* An AIR of width 2 whose two input entries differ has been constructed
\* with a trace of more than one state.
C15_Witness ==
  /\ air.op = "AIR" /\ air.done /\ air.exc = "none"
  /\ air.width = 2 /\ air.inp[1] # air.inp[2]
  /\ Len(air.computational_trace) > 1
  /\ Len(air.B) = 2

--------------------------------------------------------------------------
(***************************************************************************)
(* stark.py: module constants.  The modulus 2^256 - 351*2^32 + 1 and the   *)
(* domain limit 2^32 are scaled to 17 = 2^4 + 1 and 2^4; 7 generates the   *)
(* multiplicative group of both fields.                                    *)
(***************************************************************************)
modulus == 17

\* The literal 2**32 of the size checks of mk_proof and verify_proof.
TwoTo32 == 16

\* Number of sampled positions.
spot_check_security_factor == 80

\* Number of distinct digests of the model's hash.
HashSpace == 1009

--------------------------------------------------------------------------
(***************************************************************************)
(* Byte strings, the hash and the Merkle tree (starks.merkle_tree).  A     *)
(* byte string is a sequence of chunks; an integer serialises to one       *)
(* 32-byte chunk, a digest is one chunk.                                   *)
(***************************************************************************)
to_bytes(v) == <<v>>

RECURSIVE from_bytes_fold(_, _)
from_bytes_fold(b, k) ==
  IF k = 0 THEN 0 ELSE from_bytes_fold(b, k - 1) * HashSpace + b[k]

\* int.from_bytes(b, 'big').
from_bytes(b) == from_bytes_fold(b, Len(b))

RECURSIVE blake_fold(_, _)
blake_fold(b, k) ==
  IF k = 0 THEN 7 ELSE (blake_fold(b, k - 1) * 31 + b[k] + 1) % HashSpace

blake(b) == <<blake_fold(b, Len(b))>>

\* Node i of the tree over the leaves L (n of them): leaves sit at n..2n-1.
RECURSIVE MerkleNode(_, _, _)
MerkleNode(L, n, i) ==
  IF i >= n THEN L[i - n + 1]
  ELSE blake(MerkleNode(L, n, 2 * i) \o MerkleNode(L, n, 2 * i + 1))

\* merkelize(L): the flat array of nodes, the root at index 1.
merkelize(L) == [i \in 1..(2 * Len(L) - 1) |-> MerkleNode(L, Len(L), i)]

RECURSIVE mk_branch_path(_, _)
mk_branch_path(tree, idx) ==
  IF idx <= 1 THEN <<>>
  ELSE <<tree[IF idx % 2 = 0 THEN idx + 1 ELSE idx - 1]>>
         \o mk_branch_path(tree, idx \div 2)

\* mk_branch(tree, index): the leaf, then the siblings from leaf to root.
mk_branch(tree, index) ==
  LET n == (Len(tree) + 1) \div 2
  IN <<tree[index + n]>> \o mk_branch_path(tree, index + n)

RECURSIVE verify_branch_fold(_, _, _)
verify_branch_fold(index, proof, k) ==
  IF k = 1 THEN proof[1]
  ELSE LET v == verify_branch_fold(index, proof, k - 1)
           bit == (index \div Pow2(k - 2)) % 2
       IN IF bit = 1 THEN blake(proof[k] \o v) ELSE blake(v \o proof[k])

\* verify_branch(root, index, proof): the leaf, or AssertionError when the
\* recomputed root differs.
verify_branch(root, index, proof) ==
  IF Len(proof) >= 1 /\ verify_branch_fold(index, proof, Len(proof)) = root
  THEN [exc |-> "none", leaf |-> proof[1]]
  ELSE [exc |-> "AssertionError", leaf |-> <<>>]

\* starks.utils.get_pseudorandom_indices: hash the seed with a counter
\* 0, 1, 2, ..., reduce each digest modulo the domain size, reject the
\* multiples of exclude_multiples_of, keep the first count survivors.
\* The counters are scanned in windows of doubling size.
RECURSIVE get_pseudorandom_indices_within(_, _, _, _, _)
get_pseudorandom_indices_within(seed, N, count, exclude_multiples_of, window) ==
  LET Kept(w) == exclude_multiples_of = 0 \/ w % exclude_multiples_of # 0
      drawn == [c \in 1..window |-> from_bytes(blake(seed \o <<c - 1>>)) % N]
      kept == SelectSeq(drawn, Kept)
  IN IF Len(kept) >= count THEN SubSeq(kept, 1, count)
     ELSE get_pseudorandom_indices_within(seed, N, count,
                                          exclude_multiples_of, 2 * window)

get_pseudorandom_indices(seed, N, count, exclude_multiples_of) ==
  get_pseudorandom_indices_within(seed, N, count, exclude_multiples_of,
                                  count + 1)

\* starks.utils.is_a_power_of_2.
is_a_power_of_2(n) == \E k \in 0..n : Pow2(k) = n

\* starks.utils.get_power_cycle(r, modulus): 1, r, r^2, ... up to the last
\* power before 1 recurs.
RECURSIVE get_power_cycle_from(_, _)
get_power_cycle_from(r, o) ==
  LET next == FMul(modulus, o[Len(o)], r)
  IN IF next = 1 THEN o ELSE get_power_cycle_from(r, Append(o, next))

get_power_cycle(r) == get_power_cycle_from(r, <<1>>)

--------------------------------------------------------------------------
(***************************************************************************)
(* stark.py: the computation and its parameters.  Python lists are         *)
(* sequences, so Python's index i is index i + 1 here.  A function that    *)
(* can raise returns a record whose field exc names the exception, "none"  *)
(* when it returns normally.                                               *)
(***************************************************************************)
Raise(exception, lineno) == [exc |-> exception, line |-> lineno]

\* Python's binding of a call to a function whose parameters all lack
\* defaults: npos positional arguments and the keyword arguments kws bind
\* iff every parameter gets exactly one value and no keyword is unknown.
CallBinds(params, npos, kws) ==
  /\ npos <= Len(params)
  /\ \A k \in kws : \E i \in (npos + 1)..Len(params) : params[i] = k
  /\ \A i \in (npos + 1)..Len(params) : params[i] \in kws

\* The step functions handed to the prover, called as step_fn(f, state,
\* poly_constants): a MiMC round with one round constant, an increment
\* with none, and a Fibonacci step on a state of two entries.
step_fn_call(step_fn, state, poly_constants) ==
  CASE step_fn = "mimc" ->
         <<(FExp(modulus, state[1] % modulus, 3) + poly_constants[1]) % modulus>>
    [] step_fn = "inc" -> <<(state[1] + 1) % modulus>>
    [] step_fn = "fib" -> <<state[2] % modulus, (state[1] + state[2]) % modulus>>

\* The loop of get_computational_trace: iteration i of range(steps - 1)
\* reads constants[d][i] of every constants list d.
RECURSIVE stark_trace_loop(_, _, _, _, _)
stark_trace_loop(trace, i, steps, constants, step_fn) ==
  IF i >= steps - 1 THEN [exc |-> "none", trace |-> trace]
  ELSE IF \E d \in 1..Len(constants) : Len(constants[d]) < i + 1
  THEN [exc |-> "IndexError", trace |-> trace]
  ELSE stark_trace_loop(
         Append(trace, step_fn_call(step_fn, trace[Len(trace)],
                         [d \in 1..Len(constants) |-> constants[d][i + 1]])),
         i + 1, steps, constants, step_fn)

\* get_computational_trace(inp, steps, constants, step_fn) of stark.py.
stark_get_computational_trace(inp, steps, constants, step_fn) ==
  LET r == stark_trace_loop(<<inp>>, 0, steps, constants, step_fn)
  IN [exc |-> r.exc, computational_trace |-> r.trace,
      output |-> r.trace[Len(r.trace)]]

Computation_params == <<"dims", "inp", "steps", "constants", "step_fn">>

\* Computation.__init__(self, dims, inp, steps, constants, step_fn).
Computation_init(dims, inp, steps, constants, step_fn) ==
  LET r == stark_get_computational_trace(inp, steps, constants, step_fn)
  IN [exc |-> r.exc, dims |-> dims, inp |-> inp, steps |-> steps,
      constants |-> constants, step_fn |-> step_fn,
      computational_trace |-> r.computational_trace, output |-> r.output]

\* The call Computation(a1, ..., an) with positional arguments only.
Computation_call(positional) ==
  IF ~ CallBinds(Computation_params, Len(positional), {})
  THEN [exc |-> "TypeError"]
  ELSE Computation_init(positional[1], positional[2], positional[3],
                        positional[4], positional[5])

\* The parameters with last_step_position read at index steps - 1 of xs.
StarkParams_init_last_unscaled(comp, extension_factor) ==
  LET precision == comp.steps * extension_factor
  IN IF precision = 0 THEN [exc |-> "ZeroDivisionError"]
     ELSE LET G2 == FExp(modulus, 7, (modulus - 1) \div precision)
              G1 == FExp(modulus, G2, extension_factor)
              xs == get_power_cycle(G2)
          IN IF (comp.steps - 1) + 1 > Len(xs)
             THEN [exc |-> "IndexError"]
             ELSE [exc |-> "none", modulus |-> modulus,
                   extension_factor |-> extension_factor,
                   precision |-> precision, G2 |-> G2, G1 |-> G1, xs |-> xs,
                   last_step_position |-> xs[(comp.steps - 1) + 1]]

\* StarkParams.__init__(self, comp, modulus, extension_factor).
StarkParams_init(comp, extension_factor) ==
  LET precision == comp.steps * extension_factor
  IN IF precision = 0 THEN [exc |-> "ZeroDivisionError"]
     ELSE LET G2 == FExp(modulus, 7, (modulus - 1) \div precision)
              G1 == FExp(modulus, G2, extension_factor)
              xs == get_power_cycle(G2)
          IN IF (comp.steps - 1) * extension_factor + 1 > Len(xs)
             THEN [exc |-> "IndexError"]
             ELSE [exc |-> "none", modulus |-> modulus,
                   extension_factor |-> extension_factor,
                   precision |-> precision, G2 |-> G2, G1 |-> G1, xs |-> xs,
                   last_step_position |->
                     xs[(comp.steps - 1) * extension_factor + 1]]

--------------------------------------------------------------------------
(***************************************************************************)
(* starks.fft and the polynomial methods of PrimeField.  The transform is  *)
(* computed from its definition: the forward transform evaluates the       *)
(* coefficient list at the powers of the root, the inverse interpolates.   *)
(***************************************************************************)
RECURSIVE fft_sum(_, _, _, _, _)
fft_sum(vals, root, i, dim, k) ==
  IF k = 0 THEN 0
  ELSE (fft_sum(vals, root, i, dim, k - 1)
          + vals[k][dim] * FExp(modulus, root, i * (k - 1))) % modulus

\* fft(vals, modulus, root_of_unity, inv, dims): vals is a list of states
\* of dims entries, padded with zero states up to the order of the root.
fft(vals, root_of_unity, inv, dims) ==
  LET order == Len(get_power_cycle(root_of_unity))
      n == IF order > Len(vals) THEN order ELSE Len(vals)
      padded == [k \in 1..n |->
                   IF k <= Len(vals) THEN vals[k] ELSE [d \in 1..dims |-> 0]]
      root == IF inv THEN FInv(modulus, root_of_unity) ELSE root_of_unity
      scale == IF inv THEN FInv(modulus, n % modulus) ELSE 1
  IN [i \in 1..n |->
        [d \in 1..dims |-> (scale * fft_sum(padded, root, i - 1, d, n)) % modulus]]

\* f.eval_poly_at(p, x): coefficients in ascending degree.
RECURSIVE eval_poly_at_from(_, _, _)
eval_poly_at_from(poly, x, k) ==
  IF k > Len(poly) THEN 0
  ELSE (poly[k] + x * eval_poly_at_from(poly, x, k + 1)) % modulus

eval_poly_at(poly, x) == eval_poly_at_from(poly, x % modulus, 1)

\* f.mul_polys(a, b).
mul_polys(a, b) ==
  [k \in 1..(Len(a) + Len(b) - 1) |->
     SumSeq([i \in 1..Len(a) |->
               IF k - i + 1 >= 1 /\ k - i + 1 <= Len(b)
               THEN a[i] * b[k - i + 1] ELSE 0], Len(a)) % modulus]

--------------------------------------------------------------------------
(***************************************************************************)
(* stark.py: the prover's polynomials, as lists of evaluations over the    *)
(* powers of G2.                                                           *)
(***************************************************************************)
construct_computation_polynomial(comp, params) ==
  LET computational_trace_polynomial ==
        fft(comp.computational_trace, params.G1, TRUE, comp.dims)
      p_evaluations ==
        fft(computational_trace_polynomial, params.G2, FALSE, comp.dims)
  IN IF Len(computational_trace_polynomial) # comp.steps
     THEN [exc |-> "AssertionError", val |-> <<>>]
     ELSE IF Len(p_evaluations) # comp.steps * params.extension_factor
     THEN [exc |-> "AssertionError", val |-> <<>>]
     ELSE [exc |-> "none", val |-> p_evaluations]

\* The extension of list d with the first transform not inverted.
constants_mini_extension_not_inverted(comp, params, d) ==
  LET deg_constants ==
        [k \in 1..Len(comp.constants[d]) |-> <<comp.constants[d][k]>>]
  IN IF Len(deg_constants) = 0 \/ comp.steps \div Len(deg_constants) = 0
     THEN [exc |-> "ZeroDivisionError", val |-> <<>>]
     ELSE LET skips2 == comp.steps \div Len(deg_constants)
              constants_mini_polynomial ==
                fft(deg_constants, FExp(modulus, params.G1, skips2), FALSE, 1)
              extension ==
                fft(constants_mini_polynomial,
                    FExp(modulus, params.G2, skips2), FALSE, 1)
          IN IF Len(extension) # params.precision \div skips2
             THEN [exc |-> "AssertionError", val |-> <<>>]
             ELSE [exc |-> "none", val |-> extension]

\* One pass of the loop over the constants lists: the extension of list d.
constants_mini_extension(comp, params, d) ==
  LET deg_constants ==
        [k \in 1..Len(comp.constants[d]) |-> <<comp.constants[d][k]>>]
  IN IF Len(deg_constants) = 0 \/ comp.steps \div Len(deg_constants) = 0
     THEN [exc |-> "ZeroDivisionError", val |-> <<>>]
     ELSE LET skips2 == comp.steps \div Len(deg_constants)
              constants_mini_polynomial ==
                fft(deg_constants, FExp(modulus, params.G1, skips2), TRUE, 1)
              extension ==
                fft(constants_mini_polynomial,
                    FExp(modulus, params.G2, skips2), FALSE, 1)
          IN IF Len(extension) # params.precision \div skips2
             THEN [exc |-> "AssertionError", val |-> <<>>]
             ELSE [exc |-> "none", val |-> extension]

construct_constraint_polynomial(comp, params, p_evaluations) ==
  LET deg == Len(comp.constants)
      constants_extensions ==
        [d \in 1..deg |-> constants_mini_extension(comp, params, d)]
      failed == {d \in 1..deg : constants_extensions[d].exc # "none"}
      first == CHOOSE d \in failed : \A e \in failed : d <= e
      skips2 == comp.steps \div Len(comp.constants[deg])
  IN IF failed # {}
     THEN [exc |-> constants_extensions[first].exc, val |-> <<>>]
     ELSE IF \E d \in 1..deg :
               Len(constants_extensions[d].val) # params.precision \div skips2
     THEN [exc |-> "AssertionError", val |-> <<>>]
     ELSE IF \E d \in 1..deg :
               Len(constants_extensions[d].val) < params.precision
     THEN [exc |-> "IndexError", val |-> <<>>]
     ELSE [exc |-> "none",
           val |-> [i \in 1..params.precision |->
             LET p_next ==
                   p_evaluations[((i - 1 + params.extension_factor)
                                     % params.precision) + 1]
                 step_p ==
                   step_fn_call(comp.step_fn, p_evaluations[i],
                     [d \in 1..deg |-> constants_extensions[d].val[i][1]])
             \* Python reads p_next[dim] - step_p[dim] % modulus as
             \* p_next[dim] - (step_p[dim] % modulus).
             IN [dim \in 1..comp.dims |->
                   p_next[dim] - (step_p[dim] % params.modulus)]]]

\* D computed without the denominator of Z: C(P) / (x^steps - 1).
construct_remainder_polynomial_without_den(comp, params, c_of_p_evaluations) ==
  LET z_num_evaluations ==
        [i \in 1..params.precision |->
           params.xs[(((i - 1) * comp.steps) % params.precision) + 1] - 1]
      z_num_inv == multi_inv(modulus, z_num_evaluations)
  IN [i \in 1..params.precision |->
        [dim \in 1..comp.dims |->
           (c_of_p_evaluations[i][dim] * z_num_inv[i]) % modulus]]

construct_remainder_polynomial(comp, params, c_of_p_evaluations) ==
  LET z_num_evaluations ==
        [i \in 1..params.precision |->
           params.xs[(((i - 1) * comp.steps) % params.precision) + 1] - 1]
      z_num_inv == multi_inv(modulus, z_num_evaluations)
      z_den_evaluations ==
        [i \in 1..params.precision |->
           params.xs[i] - params.last_step_position]
  IN [i \in 1..params.precision |->
        [dim \in 1..comp.dims |->
           (c_of_p_evaluations[i][dim] * z_den_evaluations[i] * z_num_inv[i])
             % modulus]]

\* B computed with the interpolant through (1, output) and
\* (last_step_position, input).
construct_boundary_polynomial_ends_swapped(comp, params, p_evaluations) ==
  LET interpolant(dim) ==
        lagrange_interp_2(modulus, <<1, params.last_step_position>>,
                          <<comp.output[dim], comp.inp[dim]>>).val
      i_evaluations_dim(dim) ==
        [j \in 1..Len(params.xs) |->
           eval_poly_at(interpolant(dim), params.xs[j])]
      zeropoly2 == mul_polys(<<-1, 1>>, <<-params.last_step_position, 1>>)
      inv_z2_evaluations_dim ==
        multi_inv(modulus, [j \in 1..Len(params.xs) |->
                              eval_poly_at(zeropoly2, params.xs[j])])
  IN [j \in 1..params.precision |->
        [dim \in 1..comp.dims |->
           ((p_evaluations[j][dim] - i_evaluations_dim(dim)[j])
              * inv_z2_evaluations_dim[j]) % modulus]]

construct_boundary_polynomial(comp, params, p_evaluations) ==
  LET interpolant(dim) ==
        lagrange_interp_2(modulus, <<1, params.last_step_position>>,
                          <<comp.inp[dim], comp.output[dim]>>).val
      i_evaluations_dim(dim) ==
        [j \in 1..Len(params.xs) |->
           eval_poly_at(interpolant(dim), params.xs[j])]
      zeropoly2 == mul_polys(<<-1, 1>>, <<-params.last_step_position, 1>>)
      inv_z2_evaluations_dim ==
        multi_inv(modulus, [j \in 1..Len(params.xs) |->
                              eval_poly_at(zeropoly2, params.xs[j])])
  IN [j \in 1..params.precision |->
        [dim \in 1..comp.dims |->
           ((p_evaluations[j][dim] - i_evaluations_dim(dim)[j])
              * inv_z2_evaluations_dim[j]) % modulus]]

\* b''.join of the serialisations of entry dim of every state in evals.
RECURSIVE join_to_bytes(_, _, _)
join_to_bytes(evals, dim, k) ==
  IF k = 0 THEN <<>>
  ELSE join_to_bytes(evals, dim, k - 1) \o to_bytes(evals[k][dim])

\* merkelize_polynomials(dims, polynomials): one tree per dimension, its
\* leaf j the joined entries of the polynomials at point j.
merkelize_polynomials(dims, polynomials) ==
  [dim \in 1..dims |->
     merkelize([j \in 1..Len(polynomials[1]) |->
                  join_to_bytes([k \in 1..Len(polynomials) |-> polynomials[k][j]],
                                dim, Len(polynomials))])]

\* Lines 255-258: the prover's challenges k1..k4, from the main root.
prover_challenges(mtree) ==
  [t \in 1..4 |-> from_bytes(blake(mtree[1] \o <<t>>))]

\* The combination with k3 and k4 exchanged.
compute_pseudorandom_linear_combination_k_swapped(comp, params, mtree, d_evaluations, p_evaluations, b_evaluations) ==
  LET ks == prover_challenges(mtree)
      G2_to_the_steps == FExp(modulus, params.G2, comp.steps)
      powers == [i \in 1..params.precision |->
                   FExp(modulus, G2_to_the_steps, i - 1)]
  IN [dim \in 1..comp.dims |->
        [i \in 1..params.precision |->
           (d_evaluations[i][dim] + p_evaluations[i][dim] * ks[1]
              + p_evaluations[i][dim] * ks[2] * powers[i]
              + b_evaluations[i][dim] * ks[4]
              + b_evaluations[i][dim] * powers[i] * ks[3]) % modulus]]

compute_pseudorandom_linear_combination(comp, params, mtree, d_evaluations, p_evaluations, b_evaluations) ==
  LET ks == prover_challenges(mtree)
      G2_to_the_steps == FExp(modulus, params.G2, comp.steps)
      powers == [i \in 1..params.precision |->
                   FExp(modulus, G2_to_the_steps, i - 1)]
  IN [dim \in 1..comp.dims |->
        [i \in 1..params.precision |->
           (d_evaluations[i][dim] + p_evaluations[i][dim] * ks[1]
              + p_evaluations[i][dim] * ks[2] * powers[i]
              + b_evaluations[i][dim] * ks[3]
              + b_evaluations[i][dim] * powers[i] * ks[4]) % modulus]]

\* The positions drawn without excluding any multiple.
prover_positions_unfiltered(l_mtree, params) ==
  get_pseudorandom_indices(l_mtree[1], params.precision,
                           spot_check_security_factor, 0)

\* Lines 285-287: the positions the prover opens.
prover_positions(l_mtree, params) ==
  get_pseudorandom_indices(l_mtree[1], params.precision,
                           spot_check_security_factor, params.extension_factor)

\* The body of the loop over positions, with the two main-tree branches
\* appended in the opposite order.
spot_check_branches_swapped(mtree, l_mtree, params, pos) ==
  << mk_branch(mtree, (pos + params.extension_factor) % params.precision),
     mk_branch(mtree, pos),
     mk_branch(l_mtree, pos) >>

\* The body of the loop over positions: the three branches appended.
spot_check_branches(mtree, l_mtree, params, pos) ==
  << mk_branch(mtree, pos),
     mk_branch(mtree, (pos + params.extension_factor) % params.precision),
     mk_branch(l_mtree, pos) >>

compute_merkle_spot_checks(mtree, l_mtree, comp, params) ==
  LET positions == prover_positions(l_mtree, params)
  IN [k \in 1..(3 * Len(positions)) |->
        spot_check_branches(mtree, l_mtree, params,
                            positions[((k - 1) \div 3) + 1])[((k - 1) % 3) + 1]]

--------------------------------------------------------------------------
(***************************************************************************)
(* stark.py: the verifier.                                                 *)
(***************************************************************************)
\* Lines 453-457 of verify_proof: the challenges, from the proof's m_root.
verifier_challenges(m_root) ==
  [t \in 1..4 |-> from_bytes(blake(m_root \o <<t>>))]

\* The positions drawn without excluding any multiple.
verifier_positions_unfiltered(l_root, params) ==
  get_pseudorandom_indices(l_root, params.precision,
                           spot_check_security_factor, 0)

\* Lines 458-461 of verify_proof: the positions, from the proof's l_root.
verifier_positions(l_root, params) ==
  get_pseudorandom_indices(l_root, params.precision,
                           spot_check_security_factor, params.extension_factor)

\* Lines 430-441 of verify_proof: the coefficient lists of the constants,
\* interpolated over the powers of G2^extension_factor.
verifier_constants_polynomials(constants, params) ==
  LET root == FExp(modulus, params.G2, params.extension_factor)
      mini_polynomial(d) ==
        fft([k \in 1..Len(constants[d]) |-> <<constants[d][k]>>], root, TRUE, 1)
      mini_extension(d) == fft(mini_polynomial(d), params.G2, FALSE, 1)
  IN IF \E d \in 1..Len(constants) : Len(mini_extension(d)) # params.precision
     THEN [exc |-> "AssertionError", val |-> <<>>]
     ELSE [exc |-> "none",
           val |-> [d \in 1..Len(constants) |->
                      [k \in 1..Len(mini_polynomial(d)) |->
                         mini_polynomial(d)[k][1]]]]

\* verify_proof_at_position(comp, params, proof, ks, i, pos,
\* constants_polynomials).  The state handed to step_fn and the boundary
\* values are the single entries of a computation of one dimension.
verify_proof_at_position(comp, params, proof, ks, i, pos, constants_polynomials) ==
  IF Len(ks) # 4 THEN Raise("ValueError", 372)
  ELSE IF Len(proof) # 4 THEN Raise("ValueError", 373)
  ELSE
  LET m_root == proof[1]
      l_root == proof[2]
      branches == proof[3]
      x == FExp(modulus, params.G2, pos)
      x_to_the_steps == FExp(modulus, x, comp.steps)
      next_pos == (pos + params.extension_factor) % params.precision
      opened1 == verify_branch(m_root, pos, branches[i * 3 + 1])
      opened2 == verify_branch(m_root, next_pos, branches[i * 3 + 2])
      opened3 == verify_branch(l_root, pos, branches[i * 3 + 3])
      mbranch1 == opened1.leaf
      mbranch2 == opened2.leaf
      l_of_x == from_bytes(opened3.leaf)
      p_of_x == from_bytes(SubSeq(mbranch1, 1, 1))
      p_of_g1x == from_bytes(SubSeq(mbranch2, 1, 1))
      d_of_x == from_bytes(SubSeq(mbranch1, 2, 2))
      b_of_x == from_bytes(SubSeq(mbranch1, 3, Len(mbranch1)))
      zvalue == FDiv(modulus, (x_to_the_steps - 1) % modulus,
                     (x - params.last_step_position) % modulus)
      k_of_xs == [d \in 1..Len(constants_polynomials) |->
                    eval_poly_at(constants_polynomials[d], x)]
      interpolant ==
        lagrange_interp_2(modulus, <<1, params.last_step_position>>,
                          <<comp.inp[1], comp.output[1]>>).val
      zeropoly2 == mul_polys(<<-1, 1>>, <<-params.last_step_position, 1>>)
      opened == [mbranch1 |-> mbranch1, mbranch2 |-> mbranch2,
                 l_of_x |-> l_of_x]
  IN IF Len(branches) < i * 3 + 1 THEN Raise("IndexError", 380)
     ELSE IF opened1.exc # "none" THEN Raise(opened1.exc, 380)
     ELSE IF Len(branches) < i * 3 + 2 THEN Raise("IndexError", 381)
     ELSE IF opened2.exc # "none" THEN Raise(opened2.exc, 381)
     ELSE IF Len(branches) < i * 3 + 3 THEN Raise("IndexError", 383)
     ELSE IF opened3.exc # "none" THEN Raise(opened3.exc, 383)
     ELSE IF (p_of_g1x
                - step_fn_call(comp.step_fn, <<p_of_x>>, k_of_xs)[1]
                - zvalue * d_of_x) % modulus # 0
     THEN [exc |-> "AssertionError", line |-> 397, opened |-> opened]
     ELSE IF (p_of_x - b_of_x * eval_poly_at(zeropoly2, x)
                - eval_poly_at(interpolant, x)) % modulus # 0
     THEN [exc |-> "AssertionError", line |-> 402, opened |-> opened]
     ELSE IF (l_of_x - d_of_x - ks[1] * p_of_x
                - ks[2] * p_of_x * x_to_the_steps - ks[3] * b_of_x
                - ks[4] * b_of_x * x_to_the_steps) % modulus # 0
     THEN [exc |-> "AssertionError", line |-> 406, opened |-> opened]
     ELSE [exc |-> "none", line |-> 407, opened |-> opened]

\* The default of the parameter constraint_degree.
constraint_degree == 2

\* starks.fri, reduced to what the proof is bound to: the root of the
\* committed evaluations and the degree bound.  The proximity test itself
\* is not modelled.
prove_low_degree(l_root, maxdeg_plus_1) == <<l_root, <<maxdeg_plus_1>> >>

verify_low_degree_proof(l_root, fri_proof, maxdeg_plus_1) ==
  fri_proof = prove_low_degree(l_root, maxdeg_plus_1)

\* The loop of lines 462-463: the calls made up to the first that raises.
verify_spot_checks(comp, params, proof, ks, positions, constants_polynomials) ==
  LET all == [k \in 1..Len(positions) |->
                verify_proof_at_position(comp, params, proof, ks, k - 1,
                                         positions[k], constants_polynomials)]
      failing == {k \in 1..Len(positions) : all[k].exc # "none"}
      last == IF failing = {} THEN Len(positions)
              ELSE CHOOSE k \in failing : \A j \in failing : k <= j
  IN SubSeq(all, 1, last)

\* What a run of the body of verify_proof leaves: the exception and the
\* line that raised it or the value returned, and the locals ks, positions
\* and the calls of verify_proof_at_position made.
VerifierOutcome(exception, lineno, result, ks, positions, checks) ==
  [exc |-> exception, line |-> lineno, result |-> result, ks |-> ks,
   positions |-> positions, checks |-> checks]

\* Lines 462-467 of verify_proof: the loop has run; the first call that
\* raised ends verify_proof, otherwise it returns True.
verify_proof_result(ks, positions, checks) ==
  IF Len(checks) > 0 /\ checks[Len(checks)].exc # "none"
  THEN VerifierOutcome(checks[Len(checks)].exc, 463, "raised", ks,
                       positions, checks)
  ELSE VerifierOutcome("none", 467, "True", ks, positions, checks)

\* Lines 453-463 of verify_proof: the challenges, the positions, the loop.
verify_proof_sample(comp, params, proof, ks, positions, polynomials) ==
  verify_proof_result(ks, positions,
    verify_spot_checks(comp, params, proof, ks, positions, polynomials))

\* Lines 425-463 of verify_proof, params and the polynomials of the
\* constants being built.
verify_proof_checks(comp, params, polys, steps, constants, proof) ==
  IF params.exc # "none"
  THEN VerifierOutcome(params.exc, 423, "raised", <<>>, <<>>, <<>>)
  ELSE IF ~ is_a_power_of_2(steps)
  THEN VerifierOutcome("AssertionError", 425, "raised", <<>>, <<>>, <<>>)
  ELSE IF Len(constants) = 0
  THEN VerifierOutcome("IndexError", 426, "raised", <<>>, <<>>, <<>>)
  ELSE IF ~ (Len(constants[1]) <= steps)
  THEN VerifierOutcome("AssertionError", 426, "raised", <<>>, <<>>, <<>>)
  ELSE IF polys.exc # "none"
  THEN VerifierOutcome(polys.exc, 439, "raised", <<>>, <<>>, <<>>)
  ELSE IF ~ verify_low_degree_proof(proof[2], proof[4],
                                    steps * constraint_degree)
  THEN VerifierOutcome("AssertionError", 444, "raised", <<>>, <<>>, <<>>)
  ELSE verify_proof_sample(comp, params, proof,
                           verifier_challenges(proof[1]),
                           verifier_positions(proof[2], params), polys.val)

\* Lines 423-441 of verify_proof: params and the polynomials of the
\* constants.
verify_proof_params(comp, params, steps, constants, proof) ==
  verify_proof_checks(comp, params,
                      verifier_constants_polynomials(constants, params),
                      steps, constants, proof)

\* Lines 423-467 of verify_proof: what follows the construction of comp.
verify_proof_from(comp, steps, constants, proof, extension_factor) ==
  verify_proof_params(comp, StarkParams_init(comp, extension_factor),
                      steps, constants, proof)

--------------------------------------------------------------------------
(***************************************************************************)
(* SpecFn: the functions of stark.py called one after the other, in the    *)
(* order of mk_proof and verify_proof, on a computation of one dimension.  *)
(* fn.stage counts the calls made; a call that raises stops the run.       *)
(***************************************************************************)
\* The numbers of steps and the extension factors with a domain that fits
\* the field: steps * extension_factor divides modulus - 1.
FnSizes == {<<2, 2>>, <<2, 4>>, <<4, 2>>, <<4, 4>>, <<8, 2>>}

FnInputs == {<<0>>, <<1>>, <<2>>, <<3>>}

\* A list of n round constants.
RoundConstants(seed, n) == [k \in 1..n |-> (seed * k * k + 3) % modulus]

\* The step functions with their constants lists, for a run of n steps:
\* no list, one constant per step, and a list of half as many constants as
\* steps, as the lists of test_mimc.py are shorter than the run.
FnPrograms(n) ==
  { [step_fn |-> "inc", constants |-> <<>>],
    [step_fn |-> "mimc", constants |-> <<RoundConstants(1, n)>>],
    [step_fn |-> "mimc", constants |-> <<RoundConstants(5, n)>>],
    [step_fn |-> "mimc", constants |-> <<RoundConstants(1, n \div 2)>>] }

Unset == [exc |-> "unset"]

FnInit ==
  /\ \E size \in FnSizes : \E inp \in FnInputs : \E prog \in FnPrograms(size[1]) :
       fn = [stage |-> 0, exc |-> "none", dims |-> 1, inp |-> inp,
             steps |-> size[1], extension_factor |-> size[2],
             constants |-> prog.constants, step_fn |-> prog.step_fn,
             comp |-> Unset, params |-> Unset,
             p_evaluations |-> <<>>, c_of_p_evaluations |-> <<>>,
             d_evaluations |-> <<>>, b_evaluations |-> <<>>,
             mtree |-> <<>>, l_evaluations |-> <<>>, l_mtree |-> <<>>,
             ks |-> <<>>, positions |-> <<>>, branches |-> <<>>,
             proof |-> <<>>, verifier_ks |-> <<>>,
             verifier_positions |-> <<>>, checks |-> <<>>,
             output |-> <<>>, result |-> "none"]
  /\ pu = Idle /\ tr = Idle /\ air = Idle
  /\ args = Idle /\ mk = Idle /\ vf = Idle
  /\ lf = Idle /\ cs = Idle /\ mv = Idle

FnRuns(n) == fn.stage = n /\ fn.exc = "none"

FnKeep == UNCHANGED <<pu, tr, air, args, mk, vf, lf, cs, mv>>

\* comp = Computation(dims, inp, steps, constants, step_fn)
NewComputation ==
  /\ FnRuns(0)
  /\ LET comp == Computation_init(fn.dims, fn.inp, fn.steps, fn.constants,
                                  fn.step_fn)
     IN fn' = [fn EXCEPT !.stage = 1, !.exc = comp.exc, !.comp = comp]
  /\ FnKeep

\* params = StarkParams(comp, modulus, extension_factor)
NewStarkParams ==
  /\ FnRuns(1)
  /\ LET params == StarkParams_init(fn.comp, fn.extension_factor)
     IN fn' = [fn EXCEPT !.stage = 2, !.exc = params.exc, !.params = params]
  /\ FnKeep

ConstructComputationPolynomial ==
  /\ FnRuns(2)
  /\ LET r == construct_computation_polynomial(fn.comp, fn.params)
     IN fn' = [fn EXCEPT !.stage = 3, !.exc = r.exc, !.p_evaluations = r.val]
  /\ FnKeep

ConstructConstraintPolynomial ==
  /\ FnRuns(3)
  /\ LET r == construct_constraint_polynomial(fn.comp, fn.params,
                                              fn.p_evaluations)
     IN fn' = [fn EXCEPT !.stage = 4, !.exc = r.exc,
                         !.c_of_p_evaluations = r.val]
  /\ FnKeep

ConstructRemainderPolynomial ==
  /\ FnRuns(4)
  /\ fn' = [fn EXCEPT !.stage = 5,
              !.d_evaluations =
                 construct_remainder_polynomial(fn.comp, fn.params,
                                                fn.c_of_p_evaluations)]
  /\ FnKeep

ConstructBoundaryPolynomial ==
  /\ FnRuns(5)
  /\ fn' = [fn EXCEPT !.stage = 6,
              !.b_evaluations =
                 construct_boundary_polynomial(fn.comp, fn.params,
                                               fn.p_evaluations)]
  /\ FnKeep

\* The main tree: merkelize_polynomials over P, D and B, dimension 0.
MerkelizePolynomials ==
  /\ FnRuns(6)
  /\ fn' = [fn EXCEPT !.stage = 7,
              !.mtree =
                 merkelize_polynomials(fn.dims,
                   <<fn.p_evaluations, fn.d_evaluations, fn.b_evaluations>>)[1]]
  /\ FnKeep

\* l_evaluations = compute_pseudorandom_linear_combination(...), then the
\* tree over its entries.
ComputePseudorandomLinearCombination ==
  /\ FnRuns(7)
  /\ LET l == compute_pseudorandom_linear_combination(fn.comp, fn.params,
                fn.mtree, fn.d_evaluations, fn.p_evaluations, fn.b_evaluations)
     IN fn' = [fn EXCEPT !.stage = 8, !.l_evaluations = l,
                 !.ks = prover_challenges(fn.mtree),
                 !.l_mtree = merkelize([i \in 1..Len(l[1]) |-> to_bytes(l[1][i])])]
  /\ FnKeep

\* branches = compute_merkle_spot_checks(mtree, l_mtree, comp, params), and
\* the proof assembled from the two roots and the branches.
ComputeMerkleSpotChecks ==
  /\ FnRuns(8)
  /\ LET branches == compute_merkle_spot_checks(fn.mtree, fn.l_mtree,
                                                fn.comp, fn.params)
     IN fn' = [fn EXCEPT !.stage = 9, !.branches = branches,
                 !.positions = prover_positions(fn.l_mtree, fn.params),
                 !.proof = <<fn.mtree[1], fn.l_mtree[1], branches,
                            prove_low_degree(fn.l_mtree[1],
                                             fn.steps * constraint_degree)>>]
  /\ FnKeep

\* fn after the body of verify_proof has run with outcome r.
FnVerified(r, claimed) ==
  [fn EXCEPT !.stage = 10, !.exc = r.exc, !.output = claimed,
             !.verifier_ks = r.ks, !.verifier_positions = r.positions,
             !.checks = r.checks, !.result = r.result]

\* The verifier's side of the run: the body of verify_proof from line 423,
\* on the computation and the proof of this run.  output is the output the
\* caller of verify_proof claims, the true one or another; no statement of
\* the body reads it.
VerifyProofBody ==
  /\ FnRuns(9)
  /\ \E wrong \in {0, 1} :
       fn' = FnVerified(
               verify_proof_from(fn.comp, fn.steps, fn.constants, fn.proof,
                                 fn.extension_factor),
               <<(fn.comp.output[1] + wrong) % modulus>>)
  /\ FnKeep

FnNext ==
  \/ NewComputation
  \/ NewStarkParams
  \/ ConstructComputationPolynomial
  \/ ConstructConstraintPolynomial
  \/ ConstructRemainderPolynomial
  \/ ConstructBoundaryPolynomial
  \/ MerkelizePolynomials
  \/ ComputePseudorandomLinearCombination
  \/ ComputeMerkleSpotChecks
  \/ VerifyProofBody

SpecFn == FnInit /\ [][FnNext]_vars

--------------------------------------------------------------------------
(***************************************************************************)
(* stark.py: the entry points mk_proof and verify_proof, statement by      *)
(* statement up to the first that raises.  The outcome of a call is the    *)
(* exception and the line that raised it, or the value returned.           *)
(***************************************************************************)
Outcome(exception, lineno, result) ==
  [exc |-> exception, line |-> lineno, result |-> result]

\* What the caller sees of the outcome r of the body of verify_proof.
Visible(r) == Outcome(r.exc, r.line, r.result)

\* The outcome r of a call, stored under the name of the function called.
Called(function, r) ==
  [op |-> function, exc |-> r.exc, line |-> r.line, result |-> r.result]

\* The size check of line 318 left out.
mk_proof_size_unchecked(steps, extension_factor) == TRUE

\* Line 318: assert steps <= 2**32 // extension_factor.
mk_proof_size_ok(steps, extension_factor) ==
  steps <= TwoTo32 \div extension_factor

\* mk_proof(inp, steps, constants, step_fn, constraint_degree=2, dims=1,
\* extension_factor).  Line 324 calls Computation with four arguments;
\* lines 326, 334 and 337 pass a keyword dims that the functions called do
\* not have; line 342 calls to_bytes on the lists that p_evaluations holds.
mk_proof(inp, steps, constants, step_fn, extension_factor) ==
  IF ~ mk_proof_size_ok(steps, extension_factor)
  THEN Outcome("AssertionError", 318, "raised")
  ELSE IF ~ is_a_power_of_2(steps)
  THEN Outcome("AssertionError", 320, "raised")
  ELSE IF \E i \in 1..Len(constants) : ~ (Len(constants[i]) <= steps)
  THEN Outcome("AssertionError", 322, "raised")
  ELSE
  LET comp == Computation_call(<<inp, steps, constants, step_fn>>)
      params == StarkParams_init(comp, extension_factor)
      p_evaluations == construct_computation_polynomial(comp, params)
      c_of_p_evaluations ==
        construct_constraint_polynomial(comp, params, p_evaluations.val)
  IN IF comp.exc # "none" THEN Outcome(comp.exc, 324, "raised")
     ELSE IF params.exc # "none" THEN Outcome(params.exc, 325, "raised")
     ELSE IF ~ CallBinds(<<"comp", "params">>, 2, {"dims"})
     THEN Outcome("TypeError", 326, "raised")
     ELSE IF p_evaluations.exc # "none"
     THEN Outcome(p_evaluations.exc, 326, "raised")
     ELSE IF c_of_p_evaluations.exc # "none"
     THEN Outcome(c_of_p_evaluations.exc, 331, "raised")
     ELSE IF ~ CallBinds(<<"comp", "params", "c_of_p_evaluations">>, 3,
                         {"dims"})
     THEN Outcome("TypeError", 334, "raised")
     ELSE IF ~ CallBinds(<<"comp", "params", "p_evaluations">>, 3, {"dims"})
     THEN Outcome("TypeError", 337, "raised")
     ELSE Outcome("AttributeError", 342, "raised")

\* verify_proof(inp, steps, constants, output, proof, step_fn,
\* constraint_degree=2, extension_factor).  The parameter output is not
\* read by any statement.  Line 422 calls Computation with four arguments.
verify_proof(inp, steps, constants, output, proof, step_fn, extension_factor) ==
  IF ~ (steps <= TwoTo32 \div extension_factor)
  THEN Outcome("AssertionError", 420, "raised")
  ELSE IF Len(proof) # 4 THEN Outcome("ValueError", 421, "raised")
  ELSE
  LET comp == Computation_call(<<inp, steps, constants, step_fn>>)
  IN IF comp.exc # "none" THEN Outcome(comp.exc, 422, "raised")
     ELSE Visible(verify_proof_from(comp, steps, constants, proof,
                                    extension_factor))

--------------------------------------------------------------------------
(***************************************************************************)
(* Spec: a caller of the entry points.  args holds the arguments of both   *)
(* calls; MkProof and VerifyProof each run their function once.            *)
(***************************************************************************)
\* Largest number of steps a caller asks for.
MaxSteps == 9

ExtensionFactors == {2, 4}

\* The step functions and constants lists a caller passes for n steps; the
\* last list is one entry longer than the number of steps.
Programs(n) ==
  { [step_fn |-> "inc", constants |-> <<>>],
    [step_fn |-> "mimc", constants |-> <<RoundConstants(1, n)>>],
    [step_fn |-> "mimc", constants |-> <<RoundConstants(1, n + 1)>>] }

\* The arguments mk_proof accepts: none of its three assertions fails.
ValidArgs(a) ==
  /\ a.steps <= TwoTo32 \div a.extension_factor
  /\ is_a_power_of_2(a.steps)
  /\ \A i \in 1..Len(a.constants) : Len(a.constants[i]) <= a.steps

\* The last state of the computation the arguments describe.
TrueOutput(inp, steps, constants, step_fn) ==
  Computation_init(1, inp, steps, constants, step_fn).output

\* The proofs a caller hands to verify_proof: one with a component missing
\* and two of the right shape, without and with an opening.
Proofs ==
  { << <<11>>, <<12>>, <<>> >>,
    << <<11>>, <<12>>, <<>>, <<>> >>,
    << <<11>>, <<12>>, << <<11>>, <<11>>, <<12>> >>, << <<12>>, <<2>> >> >> }

Init ==
  /\ \E steps \in 1..MaxSteps : \E extension_factor \in ExtensionFactors :
     \E inp \in FnInputs : \E prog \in Programs(steps) :
     \E wrong \in {0, 1} :
     \E proof \in Proofs :
       args = [inp |-> inp, steps |-> steps, constants |-> prog.constants,
               step_fn |-> prog.step_fn,
               extension_factor |-> extension_factor,
               output |->
                 << (TrueOutput(inp, steps, prog.constants, prog.step_fn)[1]
                       + wrong) % modulus >>,
               proof |-> proof]
  /\ mk = Idle /\ vf = Idle
  /\ pu = Idle /\ tr = Idle /\ air = Idle /\ fn = Idle
  /\ lf = Idle /\ cs = Idle /\ mv = Idle

\* mk_proof(inp, steps, constants, step_fn, extension_factor=...)
MkProof ==
  /\ mk = Idle
  /\ mk' = Called("mk_proof",
                  mk_proof(args.inp, args.steps, args.constants, args.step_fn,
                           args.extension_factor))
  /\ UNCHANGED <<pu, tr, air, args, vf, fn, lf, cs, mv>>

\* verify_proof(inp, steps, constants, output, proof, step_fn,
\* extension_factor=...)
VerifyProof ==
  /\ vf = Idle
  /\ vf' = Called("verify_proof",
                  verify_proof(args.inp, args.steps, args.constants,
                               args.output, args.proof, args.step_fn,
                               args.extension_factor))
  /\ UNCHANGED <<pu, tr, air, args, mk, fn, lf, cs, mv>>

Next == MkProof \/ VerifyProof

Spec == Init /\ [][Next]_vars

--------------------------------------------------------------------------
(***************************************************************************)
(* Properties of the entry points, checked under Spec.                     *)
(***************************************************************************)
\* C1: completeness.  Whenever mk_proof has run on arguments that pass its
\* checks (steps a power of two within the size limit, no constants list
\* longer than steps), it has returned a proof, and verify_proof called
\* with the same arguments, the true output and that proof returns True.
C1_Completeness ==
  (mk # Idle /\ ValidArgs(args)) =>
    /\ mk.exc = "none"
    /\ verify_proof(args.inp, args.steps, args.constants,
                    TrueOutput(args.inp, args.steps, args.constants,
                               args.step_fn),
                    mk.result, args.step_fn,
                    args.extension_factor).result = "True"

\* C3: verify_proof never propagates an exception.  Whenever verify_proof
\* has run and has not accepted, it has returned False rather than raised.
C3_FailureReturnsFalse ==
  (vf # Idle /\ vf.result # "True") =>
    (vf.exc = "none" /\ vf.result = "False")

\* C4: whenever mk_proof has run on arguments with steps above
\* 2^32 // extension_factor, or steps not a power of two, or a constants
\* list longer than steps, it has failed with the AssertionError of line
\* 318, 320 or 322, before line 324 builds the computation and its trace.
C4_InvalidArgumentsFailEarly ==
  (mk # Idle /\ ~ ValidArgs(args)) =>
    (mk.exc = "AssertionError" /\ mk.line \in {318, 320, 322})

\* C4 witness: mk_proof has run with steps a power of two above the size
\* limit and has stopped at the size check.
C4_Witness ==
  /\ mk # Idle
  /\ is_a_power_of_2(args.steps)
  /\ args.steps > TwoTo32 \div args.extension_factor
  /\ mk.exc = "AssertionError"
  /\ mk.line = 318

--------------------------------------------------------------------------
C6_SameChallengesAndPositions ==
  (fn.stage = 10 /\ fn.verifier_ks # <<>>) =>
    /\ fn.verifier_ks = fn.ks
    /\ fn.verifier_positions = fn.positions

\* C6 witness: the verifier has derived four challenges and
\* spot_check_security_factor positions from a proof the prover built.
C6_Witness ==
  /\ fn.stage = 10
  /\ Len(fn.verifier_ks) = 4
  /\ Len(fn.verifier_positions) = spot_check_security_factor
  /\ fn.proof[1] = fn.mtree[1]
  /\ fn.proof[2] = fn.l_mtree[1]

\* Leaf pos of a tree as merkelize lays it out.
LeafAt(tree, pos) == tree[(Len(tree) + 1) \div 2 + pos]

\* C7: the layout of the proof.  Once the spot checks are computed, the
\* proof is (m_root, l_root, branches, fri_proof), branches has
\* 3 * spot_check_security_factor entries, and for the i-th position pos
\* entries 3i, 3i+1, 3i+2 are the main-tree branch at pos, the main-tree
\* branch at (pos + extension_factor) mod precision and the L-tree branch at
\* pos; every call of verify_proof_at_position that got past its openings
\* has opened exactly the leaves at these positions.
C7_ProofLayout ==
  (fn.stage >= 9) =>
    /\ Len(fn.proof) = 4
    /\ fn.proof[1] = fn.mtree[1]
    /\ fn.proof[2] = fn.l_mtree[1]
    /\ fn.proof[3] = fn.branches
    /\ Len(fn.branches) = 3 * spot_check_security_factor
    /\ \A i \in 0..(spot_check_security_factor - 1) :
         LET pos == fn.positions[i + 1]
             next == (pos + fn.extension_factor) % fn.params.precision
         IN /\ fn.branches[3 * i + 1] = mk_branch(fn.mtree, pos)
            /\ fn.branches[3 * i + 2] = mk_branch(fn.mtree, next)
            /\ fn.branches[3 * i + 3] = mk_branch(fn.l_mtree, pos)
            /\ (i + 1 <= Len(fn.checks) /\ fn.checks[i + 1].line >= 397) =>
                 /\ fn.checks[i + 1].opened.mbranch1 = LeafAt(fn.mtree, pos)
                 /\ fn.checks[i + 1].opened.mbranch2 = LeafAt(fn.mtree, next)
                 /\ fn.checks[i + 1].opened.l_of_x
                      = from_bytes(LeafAt(fn.l_mtree, pos))

\* C7 witness: verify_proof_at_position has opened the three branches of
\* every sampled position of a proof with 3 * spot_check_security_factor
\* branches.
C7_Witness ==
  /\ fn.stage = 10
  /\ Len(fn.branches) = 3 * spot_check_security_factor
  /\ Len(fn.checks) = spot_check_security_factor
  /\ \A i \in 1..Len(fn.checks) : fn.checks[i].line >= 397

--------------------------------------------------------------------------
(***************************************************************************)
(* The identities between the prover's evaluations (SpecFn).  Index i of   *)
(* the evaluation domain is entry i + 1 of a list; x = G2^i.               *)
(***************************************************************************)
DomainIndices == 0..(fn.params.precision - 1)

DomainPoint(i) == FExp(modulus, fn.params.G2, i)

\* K(x): the constants polynomials of the verifier, evaluated at x.
ConstantsAt(x) ==
  LET polys == verifier_constants_polynomials(fn.constants, fn.params).val
  IN [d \in 1..Len(fn.constants) |-> eval_poly_at(polys[d], x)]

\* Z(x) = (x^steps - 1) / (x - G1^(steps-1)).
ZAt(x) ==
  FDiv(modulus, (FExp(modulus, x, fn.steps) - 1) % modulus,
       (x - FExp(modulus, fn.params.G1, fn.steps - 1)) % modulus)

\* C17: for an honest prover run, at every domain index i that is not a
\* multiple of extension_factor, with x = G2^i,
\* P(G1*x) - step_fn(P(x), K(x)) - Z(x) * D(x) = 0 mod p, where P(G1*x) is the
\* P-evaluation at index (i + extension_factor) mod N; the verifier's
\* assertion of line 397 does not fail on the honest proof.
C17_TransitionIdentity ==
  /\ (fn.stage >= 5 /\ fn.stage <= 9 /\ fn.exc = "none") =>
       \A i \in DomainIndices :
         (i % fn.extension_factor # 0) =>
           LET x == DomainPoint(i)
               p_of_x == fn.p_evaluations[i + 1]
               p_of_g1x ==
                 fn.p_evaluations[((i + fn.extension_factor)
                                     % fn.params.precision) + 1]
               d_of_x == fn.d_evaluations[i + 1][1]
           IN (p_of_g1x[1]
                 - step_fn_call(fn.step_fn, p_of_x, ConstantsAt(x))[1]
                 - ZAt(x) * d_of_x) % modulus = 0
  /\ (fn.stage = 10) =>
       \A k \in 1..Len(fn.checks) : fn.checks[k].line # 397

\* D has been computed for a MiMC run of four steps or more, and is not 0
\* at index 1.
C17_Witness ==
  /\ fn.stage = 5 /\ fn.exc = "none"
  /\ fn.step_fn = "mimc" /\ fn.steps >= 4
  /\ fn.d_evaluations[2][1] # 0

\* C18: for a trace generated by the step function, the evaluations of C(P)
\* are 0 mod p at every domain index k * extension_factor with
\* 0 <= k < steps - 1.
C18_ConstraintVanishesOnTrace ==
  (fn.stage >= 4 /\ fn.stage <= 9 /\ fn.exc = "none") =>
     \A k \in 0..(fn.steps - 2) :
        fn.c_of_p_evaluations[k * fn.extension_factor + 1][1] % modulus = 0

\* C(P) has been computed for a MiMC run of four steps or more, and is not
\* 0 mod p at the index of the last step.
C18_Witness ==
  /\ fn.stage = 4 /\ fn.exc = "none"
  /\ fn.step_fn = "mimc" /\ fn.steps >= 4
  /\ fn.c_of_p_evaluations[(fn.steps - 1) * fn.extension_factor + 1][1]
       % modulus # 0

\* I(x): the line through (1, input) and (G1^(steps-1), output).
InterpolantAt(x) ==
  LET last == FExp(modulus, fn.params.G1, fn.steps - 1)
      slope == FDiv(modulus, (fn.comp.output[1] - fn.comp.inp[1]) % modulus,
                    (last - 1) % modulus)
  IN (fn.comp.inp[1] + slope * (x - 1)) % modulus

C20_LinearCombination ==
  (fn.stage >= 8 /\ fn.stage <= 9 /\ fn.exc = "none") =>
     \A i \in DomainIndices :
        LET x == DomainPoint(i)
            power == FExp(modulus, FExp(modulus, fn.params.G2, fn.steps), i)
            x_to_the_steps == FExp(modulus, x, fn.steps)
            p_of_x == fn.p_evaluations[i + 1][1]
            d_of_x == fn.d_evaluations[i + 1][1]
            b_of_x == fn.b_evaluations[i + 1][1]
            l_of_x == fn.l_evaluations[1][i + 1]
        IN /\ l_of_x = (d_of_x + fn.ks[1] * p_of_x
                          + fn.ks[2] * power * p_of_x + fn.ks[3] * b_of_x
                          + fn.ks[4] * power * b_of_x) % modulus
           /\ (l_of_x - d_of_x - fn.ks[1] * p_of_x
                 - fn.ks[2] * p_of_x * x_to_the_steps - fn.ks[3] * b_of_x
                 - fn.ks[4] * b_of_x * x_to_the_steps) % modulus = 0

\* L has been computed for a MiMC run with k3 and k4 different mod p and B
\* not 0 at index 1.
C20_Witness ==
  /\ fn.stage = 8 /\ fn.exc = "none"
  /\ fn.step_fn = "mimc" /\ fn.steps >= 4
  /\ fn.ks[3] % modulus # fn.ks[4] % modulus
  /\ fn.b_evaluations[2][1] # 0

--------------------------------------------------------------------------
(***************************************************************************)
(* The sampled positions, the constants and the leaves (SpecFn).           *)
(***************************************************************************)
\* A position at which Z(x) = (x^steps - 1) / (x - last_step_position) is
\* a quotient of two nonzero field elements.
OffTrace(pos) ==
  LET x == DomainPoint(pos)
  IN /\ pos \in DomainIndices
     /\ pos % fn.extension_factor # 0
     /\ FExp(modulus, x, fn.steps) # 1
     /\ x # FExp(modulus, fn.params.G1, fn.steps - 1)
     /\ x # fn.params.last_step_position

\* C21: every position the prover opens and every position the verifier
\* checks lies in [0, N) and is not a multiple of extension_factor; at
\* x = G2^pos, x^steps # 1 and x # G1^(steps-1) = last_step_position, so the
\* numerator and the denominator of the verifier's Z(x) are not zero.
C21_PositionsOffTrace ==
  /\ (fn.stage >= 9) =>
       \A k \in 1..Len(fn.positions) : OffTrace(fn.positions[k])
  /\ (fn.stage = 10) =>
       /\ \A k \in 1..Len(fn.verifier_positions) :
            OffTrace(fn.verifier_positions[k])
       /\ Len(fn.checks) <= Len(fn.verifier_positions)

\* C21 witness: the prover has opened spot_check_security_factor positions
\* and the verifier has checked every one of its own.
C21_Witness ==
  /\ fn.stage = 10
  /\ Len(fn.positions) = spot_check_security_factor
  /\ Len(fn.verifier_positions) = spot_check_security_factor
  /\ Len(fn.checks) = spot_check_security_factor
  /\ \E k \in 1..Len(fn.positions) : fn.positions[k] > fn.extension_factor

\* The constants lists of the run are not empty and no longer than the run.
ConstantsFit ==
  \A d \in 1..Len(fn.constants) :
    Len(fn.constants[d]) >= 1 /\ Len(fn.constants[d]) <= fn.steps

\* Entry i of the constants taken periodically: c[i mod m] of every list.
PeriodicConstants(i) ==
  [d \in 1..Len(fn.constants) |->
     fn.constants[d][(i % Len(fn.constants[d])) + 1]]

\* C22: a constants sequence of length m <= steps is applied periodically.
\* The trace is generated without error and its step i, 0 <= i < steps - 1,
\* is step_fn of state i with c[i mod m]; the constraint polynomial is then
\* evaluated without error over the whole domain.
C22_ConstantsPeriodic ==
  (fn.stage >= 1 /\ ConstantsFit) =>
    /\ fn.comp.exc = "none"
    /\ Len(fn.comp.computational_trace) = fn.steps
    /\ \A i \in 0..(fn.steps - 2) :
         fn.comp.computational_trace[i + 2]
           = step_fn_call(fn.step_fn, fn.comp.computational_trace[i + 1],
                          PeriodicConstants(i))
    /\ (fn.stage = 4) => fn.exc = "none"

\* C23: the constants are optional.  For a computation with an empty
\* constants list (the step x -> x + 1) the prover's functions produce a
\* proof and the body of verify_proof accepts it without raising.
C23_EmptyConstantsAccepted ==
  (fn.constants = <<>> /\ fn.step_fn = "inc") =>
    /\ fn.exc = "none"
    /\ (fn.stage = 10) => fn.result = "True"

\* The prover's extension of constants list d, as line 169 reads it at
\* domain index i, the index taken modulo the length of the extension.
ProverConstantAt(d, i) ==
  LET extension == constants_mini_extension(fn.comp, fn.params, d).val
  IN extension[(i % Len(extension)) + 1][1]

\* C24: for a constants sequence of power-of-two length m <= steps, the
\* verifier's interpolated constants polynomial evaluates at every G2^i to
\* the K(x) the prover's extension holds for index i.
C24_SameConstantsPolynomial ==
  (fn.stage >= 2 /\ fn.params.exc = "none" /\ ConstantsFit) =>
    \A d \in 1..Len(fn.constants) : \A i \in DomainIndices :
      ConstantsAt(DomainPoint(i))[d] = ProverConstantAt(d, i)

--------------------------------------------------------------------------
(***************************************************************************)
(* SpecLeaf: merkelize_polynomials of stark.py on the evaluations of P, D  *)
(* and B at the points of a domain, then one leaf opened and decoded as    *)
(* verify_proof_at_position decodes it.                                    *)
(***************************************************************************)
\* Lines 385-388 of verify_proof_at_position: the three integers read from
\* the leaf of the main tree, the slices [:32], [32:64] and [64:].
leaf_decode(mbranch1) ==
  [p_of_x |-> from_bytes(SubSeq(mbranch1, 1, 1)),
   d_of_x |-> from_bytes(SubSeq(mbranch1, 2, 2)),
   b_of_x |-> from_bytes(SubSeq(mbranch1, 3, Len(mbranch1)))]

\* The widths of the state, and the indices of a domain of two points.
LeafWidths == {1, 2}

LeafPositions == {0, 1}

\* The reduced field elements an evaluation takes.
LeafValues == {1, modulus - 1}

\* The lists of evaluations of one polynomial: a state of w entries at
\* every point of the domain.
LeafEvaluations(w) ==
  [1..Cardinality(LeafPositions) -> [1..w -> LeafValues]]

LeafInit ==
  /\ \E w \in LeafWidths :
       \E p_evaluations \in LeafEvaluations(w), d_evaluations \in LeafEvaluations(w), b_evaluations \in LeafEvaluations(w) :
         lf = [op |-> "leaf", stage |-> 0, dims |-> w,
               p_evaluations |-> p_evaluations,
               d_evaluations |-> d_evaluations,
               b_evaluations |-> b_evaluations,
               mtrees |-> <<>>, dim |-> 0, pos |-> 0, mbranch1 |-> <<>>,
               decoded |-> Unset]
  /\ pu = Idle /\ tr = Idle /\ air = Idle /\ args = Idle
  /\ mk = Idle /\ vf = Idle /\ fn = Idle /\ cs = Idle /\ mv = Idle

LeafKeep == UNCHANGED <<pu, tr, air, args, mk, vf, fn, cs, mv>>

\* mtrees = merkelize_polynomials(dims, [p_evaluations, d_evaluations,
\* b_evaluations])
LeafMerkelize ==
  /\ lf.stage = 0
  /\ lf' = [lf EXCEPT !.stage = 1,
              !.mtrees = merkelize_polynomials(lf.dims,
                 <<lf.p_evaluations, lf.d_evaluations, lf.b_evaluations>>)]
  /\ LeafKeep

\* The leaf at position pos of the tree of one dimension is opened with
\* its branch and decoded.
LeafOpen ==
  /\ lf.stage = 1
  /\ \E dim \in 1..lf.dims, pos \in LeafPositions :
       LET tree == lf.mtrees[dim]
           mbranch1 == verify_branch(tree[1], pos, mk_branch(tree, pos)).leaf
       IN lf' = [lf EXCEPT !.stage = 2, !.dim = dim, !.pos = pos,
                   !.mbranch1 = mbranch1, !.decoded = leaf_decode(mbranch1)]
  /\ LeafKeep

LeafNext == LeafMerkelize \/ LeafOpen

SpecLeaf == LeafInit /\ [][LeafNext]_vars

\* The 32-byte big-endian serialisations of the entries of a state, one
\* after the other.
RECURSIVE SerialiseState(_, _)
SerialiseState(state, k) ==
  IF k = 0 THEN <<>> ELSE SerialiseState(state, k - 1) \o to_bytes(state[k])

\* C25: the leaf encoding round-trips for every width w.  The leaf of the
\* main tree at index i is the concatenation of the serialisations of
\* P, D and B at point i over all w dimensions, and the verifier's decoding
\* recovers exactly those values.
C25_LeafRoundTrip ==
  (lf.op = "leaf" /\ lf.stage = 2) =>
    LET P == lf.p_evaluations[lf.pos + 1]
        D == lf.d_evaluations[lf.pos + 1]
        B == lf.b_evaluations[lf.pos + 1]
    IN /\ lf.mbranch1 = SerialiseState(P, lf.dims)
                          \o SerialiseState(D, lf.dims)
                          \o SerialiseState(B, lf.dims)
       /\ \A dim \in 1..lf.dims :
            /\ lf.decoded.p_of_x = P[dim]
            /\ lf.decoded.d_of_x = D[dim]
            /\ lf.decoded.b_of_x = B[dim]

--------------------------------------------------------------------------
(***************************************************************************)
(* The parameters and the entries of the prover's lists (SpecFn).          *)
(***************************************************************************)
\* The multiplicative order of a nonzero x: the least k >= 1 with x^k = 1.
OrderOf(x) ==
  CHOOSE k \in 1..(modulus - 1) :
    /\ FExp(modulus, x, k) = 1
    /\ \A j \in 1..(k - 1) : FExp(modulus, x, j) # 1

\* C26: for N = steps * extension_factor dividing p - 1, the parameters
\* hold a G2 of exact order N, G1 = G2^extension_factor of exact order
\* steps, and last_step_position = G1^(steps - 1).
C26_RootsOfUnity ==
  (fn.stage >= 2 /\ fn.params.exc = "none"
     /\ (modulus - 1) % (fn.steps * fn.extension_factor) = 0) =>
    /\ fn.params.precision = fn.steps * fn.extension_factor
    /\ OrderOf(fn.params.G2) = fn.params.precision
    /\ fn.params.G1 = FExp(modulus, fn.params.G2, fn.extension_factor)
    /\ OrderOf(fn.params.G1) = fn.steps
    /\ fn.params.last_step_position
         = FExp(modulus, fn.params.G1, fn.steps - 1)

\* C26 witness: the parameters are built for 8 steps and extension factor
\* 2, the whole multiplicative group of the field as domain.
C26_Witness ==
  /\ fn.stage = 2 /\ fn.params.exc = "none"
  /\ fn.steps = 8 /\ fn.extension_factor = 2
  /\ fn.params.G2 = 7
  /\ fn.params.last_step_position # 1

\* Every entry of every state of a list of evaluations is in [0, p).
Reduced(evaluations) ==
  \A i \in 1..Len(evaluations) : \A dim \in 1..Len(evaluations[i]) :
    evaluations[i][dim] \in 0..(modulus - 1)

\* C27: every entry of the lists C(P), D, B and L the prover builds is a
\* reduced field element, an integer in [0, p).
C27_EntriesReduced ==
  /\ (fn.stage >= 4 /\ fn.stage <= 9 /\ fn.exc = "none") =>
       Reduced(fn.c_of_p_evaluations)
  /\ (fn.stage >= 5) => Reduced(fn.d_evaluations)
  /\ (fn.stage >= 6) => Reduced(fn.b_evaluations)
  /\ (fn.stage >= 8) => Reduced(fn.l_evaluations)

--------------------------------------------------------------------------
(***************************************************************************)
(* The monotone circuit of an AIR (SpecAIR).                               *)
(***************************************************************************)
\* Constraint j holds on the pair of states i, i + 1 of the AIR's trace
\* (counted from 1).
ConstraintHolds(polys, j, i) ==
  MvEval(air.field, polys[j],
         air.computational_trace[i] \o air.computational_trace[i + 1]) = 0

\* C28: for every AIR built, each polys[j] = Y_j - step_polys[j](X) is zero
\* on every pair of consecutive states of the trace, so C is True; and
\* generate_monotone_circuit returns True exactly when every constraint of
\* every step is satisfied, for any width >= 1.
C28_CircuitChecksEveryConstraint ==
  /\ (air.op = "AIR" /\ air.done /\ air.exc = "none") =>
       /\ \A i \in 1..(air.T - 1) : \A j \in 1..air.width :
            ConstraintHolds(air.polys, j, i)
       /\ air.C = TRUE
  /\ (tr.op = "circuit") =>
       (tr.result = TRUE) <=>
         (\A i \in 1..(air.T - 1) : \A j \in 1..air.width :
            ConstraintHolds(tr.polys, j, i))

\* C28 witness: an AIR of width 2 with a trace of more than two states has
\* been built with C True, and its circuit has rejected other constraints
\* whose last one holds on every step.
C28_Witness ==
  /\ tr.op = "circuit" /\ air.width = 2 /\ air.T >= 3
  /\ air.C = TRUE /\ tr.result = FALSE
  /\ \A i \in 1..(air.T - 1) : ConstraintHolds(tr.polys, 2, i)

--------------------------------------------------------------------------
(***************************************************************************)
(* SpecCommit: misc/commitment.py.  One BBSBitCommitmentScheme object, its *)
(* constructor run, then any calls of commit and reveal.  The one-way      *)
(* permutation is squaring modulo a Blum integer (its values are the       *)
(* quadratic residues line 32 speaks of), the hard-core predicate parity.  *)
(***************************************************************************)
\* Largest number of commit calls on one object.
MaxCommits == 3

\* The security parameters the object is constructed with.
SecurityParameters == {3, 4}

oneWayPermutation(x) == (x * x) % (7 * 11)

hardcorePredicate(x) == x % 2

\* Python's bit ^ bit.
Xor(a, b) == (a + b) % 2

\* BBSBitCommitmentScheme.generateSecret with random.getrandbits having
\* returned bits.
generateSecret(bits) == oneWayPermutation(bits)

\* BBSBitCommitmentScheme.commit(bit) on an object whose secret is secret.
commit(secret, bit) ==
  LET unguessableBit == hardcorePredicate(secret)
  IN <<oneWayPermutation(secret), Xor(unguessableBit, bit)>>

\* CommitmentScheme.__init__: the secret is generated here.
CommitInit ==
  /\ \E security_parameter \in SecurityParameters :
       \E bits \in 0..(Pow2(security_parameter) - 1) :
         cs = [op |-> "scheme", security_parameter |-> security_parameter,
               secret |-> generateSecret(bits),
               commitments |-> <<>>, revealed |-> <<>>]
  /\ pu = Idle /\ tr = Idle /\ air = Idle /\ args = Idle
  /\ mk = Idle /\ vf = Idle /\ fn = Idle /\ lf = Idle /\ mv = Idle

CommitKeep == UNCHANGED <<pu, tr, air, args, mk, vf, fn, lf, mv>>

\* scheme.commit(bit): the commitment returned is recorded with the secret
\* it was made from; the object is left as it was.
Commit ==
  /\ cs.op = "scheme"
  /\ Len(cs.commitments) < MaxCommits
  /\ \E bit \in {0, 1} :
       cs' = [cs EXCEPT !.commitments =
                Append(@, [secret |-> cs.secret, bit |-> bit,
                           commitment |-> commit(cs.secret, bit)])]
  /\ CommitKeep

\* scheme.reveal(): returns the secret.
Reveal ==
  /\ cs.op = "scheme"
  /\ cs' = [cs EXCEPT !.revealed = <<cs.secret>>]
  /\ CommitKeep

CommitNext == Commit \/ Reveal

SpecCommit == CommitInit /\ [][CommitNext]_vars

\* C29: the secret is used only once per commitment.  Each commit call on
\* one BBSBitCommitmentScheme uses a secret that no earlier commit on it
\* used, so no two commitments share their first component.
C29_SecretUsedOnce ==
  (cs.op = "scheme") =>
    \A i \in 1..Len(cs.commitments) : \A j \in 1..Len(cs.commitments) :
      (i < j) =>
        /\ cs.commitments[i].secret # cs.commitments[j].secret
        /\ cs.commitments[i].commitment[1] # cs.commitments[j].commitment[1]

--------------------------------------------------------------------------
(***************************************************************************)
(* SpecMv: poly_utils.construct_multivariate_dirac_delta and               *)
(* construct_multivariate_coefficients over the prime fields Z/p.  The     *)
(* arithmetic of multivariate polynomials (starks.multivariate_polynomial) *)
(* keeps one term per monomial, with a nonzero coefficient.                 *)
(***************************************************************************)
\* The sum of the coefficients of the monomial e among the first k terms.
RECURSIVE MvCoefficient(_, _, _, _)
MvCoefficient(p, terms, e, k) ==
  IF k = 0 THEN 0
  ELSE (MvCoefficient(p, terms, e, k - 1)
          + (IF terms[k].e = e THEN terms[k].c ELSE 0)) % p

RECURSIVE SeqOfSet(_)
SeqOfSet(S) ==
  IF S = {} THEN <<>>
  ELSE LET e == CHOOSE e \in S : TRUE IN <<e>> \o SeqOfSet(S \ {e})

\* The polynomial of a list of terms: like terms combined, zero
\* coefficients dropped.
MvCollect(p, terms) ==
  LET monomials ==
        SeqOfSet({terms[k].e : k \in {j \in 1..Len(terms) :
                     MvCoefficient(p, terms, terms[j].e, Len(terms)) # 0}})
  IN [k \in 1..Len(monomials) |->
        Term(MvCoefficient(p, terms, monomials[k], Len(terms)), monomials[k])]

\* multi({(0,)*n: c}): the constant polynomial c in n variables.
MvConst(p, c, n) == MvCollect(p, <<Term(c % p, [i \in 1..n |-> 0])>>)

\* a + b.
MvAdd(p, a, b) == MvCollect(p, a \o b)

\* c * a for a field element c.
MvScale(p, c, a) ==
  MvCollect(p, [k \in 1..Len(a) |-> Term(FMul(p, c, a[k].c), a[k].e)])

\* a * b: every term of a times every term of b.
MvMul(p, a, b) ==
  MvCollect(p,
    [k \in 1..(Len(a) * Len(b)) |->
       LET s == a[((k - 1) \div Len(b)) + 1]
           t == b[((k - 1) % Len(b)) + 1]
       IN Term(FMul(p, s.c, t.c), [i \in 1..Len(s.e) |-> s.e[i] + t.e[i]])])

\* a ** k.
RECURSIVE MvPow(_, _, _, _)
MvPow(p, a, k, n) ==
  IF k = 0 THEN MvConst(p, 1, n) ELSE MvMul(p, MvPow(p, a, k - 1, n), a)

\* The loop of construct_multivariate_dirac_delta after its first i passes:
\* base times the factors 1 - (x_j - values[j])^(q-1), j < i.
RECURSIVE dirac_delta_loop(_, _, _, _)
dirac_delta_loop(p, values, n, i) ==
  IF i = 0 THEN MvConst(p, 1, n)
  ELSE LET x_i_term == [j \in 1..n |-> IF j = i THEN 1 ELSE 0]
           term == MvCollect(p, <<Term((p - values[i]) % p, [j \in 1..n |-> 0]),
                                  Term(1, x_i_term)>>)
           factor == MvAdd(p, MvConst(p, 1, n),
                           MvScale(p, p - 1, MvPow(p, term, p - 1, n)))
       IN MvMul(p, dirac_delta_loop(p, values, n, i - 1), factor)

\* construct_multivariate_dirac_delta(field, values, n): line 257 assigns
\* x_i_term[i], which fails when values has more than n entries.
construct_multivariate_dirac_delta(p, values, n) ==
  IF Len(values) > n THEN [exc |-> "IndexError", val |-> <<>>]
  ELSE [exc |-> "none", val |-> dirac_delta_loop(p, values, n, Len(values))]

\* The functions of n variables a caller passes as step_fn, called with
\* the list x: the first entry, the entry of index n - 1, the sum of the
\* entries, the square of the first entry plus one.
MvStepFns == {"first", "last", "sum", "square_plus_one"}

MvStepFnCall(step_fn, p, n, x) ==
  CASE step_fn = "first" -> [exc |-> "none", val |-> x[1] % p]
    [] step_fn = "last" ->
         IF Len(x) < n THEN [exc |-> "IndexError", val |-> 0]
         ELSE [exc |-> "none", val |-> x[n] % p]
    [] step_fn = "sum" -> [exc |-> "none", val |-> SumSeq(x, Len(x)) % p]
    [] step_fn = "square_plus_one" ->
         [exc |-> "none", val |-> (x[1] * x[1] + 1) % p]

\* The loop of lines 295-298 after its first k passes.  Over Z/p, m = 1
\* and field_indices is (0,), (1,), ..., (p-1,): index is a list of one
\* field element.
RECURSIVE coefficients_loop(_, _, _, _)
coefficients_loop(p, step_fn, n, k) ==
  IF k = 0 THEN [exc |-> "none", val |-> MvConst(p, 0, n)]
  ELSE LET before == coefficients_loop(p, step_fn, n, k - 1)
           index == <<k - 1>>
           term == construct_multivariate_dirac_delta(p, index, n)
           value == MvStepFnCall(step_fn, p, n, index)
       IN IF before.exc # "none" THEN before
          ELSE IF term.exc # "none" THEN [exc |-> term.exc, val |-> <<>>]
          ELSE IF value.exc # "none" THEN [exc |-> value.exc, val |-> <<>>]
          ELSE [exc |-> "none",
                val |-> MvAdd(p, before.val, MvScale(p, value.val, term.val))]

\* construct_multivariate_coefficients(field, step_fn, n) for field = Z/p.
construct_multivariate_coefficients(p, step_fn, n) ==
  coefficients_loop(p, step_fn, n, p)

\* The fields and the numbers of variables of the calls.
MvPrimes == {2, 3, 5}

MvArities == {1, 2}

MvInit ==
  /\ \E p \in MvPrimes, n \in MvArities :
       \/ \E values \in [1..n -> 0..(p - 1)] :
            mv = [op |-> "dirac_delta", done |-> FALSE, p |-> p, n |-> n,
                  values |-> values, step_fn |-> "none",
                  exc |-> "none", out |-> <<>>]
       \/ \E step_fn \in MvStepFns :
            mv = [op |-> "coefficients", done |-> FALSE, p |-> p, n |-> n,
                  values |-> <<>>, step_fn |-> step_fn,
                  exc |-> "none", out |-> <<>>]
  /\ pu = Idle /\ tr = Idle /\ air = Idle /\ args = Idle
  /\ mk = Idle /\ vf = Idle /\ fn = Idle /\ lf = Idle /\ cs = Idle

MvKeep == UNCHANGED <<pu, tr, air, args, mk, vf, fn, lf, cs>>

ConstructMultivariateDiracDelta ==
  /\ mv.op = "dirac_delta" /\ ~mv.done
  /\ LET r == construct_multivariate_dirac_delta(mv.p, mv.values, mv.n)
     IN mv' = [mv EXCEPT !.done = TRUE, !.exc = r.exc, !.out = r.val]
  /\ MvKeep

ConstructMultivariateCoefficients ==
  /\ mv.op = "coefficients" /\ ~mv.done
  /\ LET r == construct_multivariate_coefficients(mv.p, mv.step_fn, mv.n)
     IN mv' = [mv EXCEPT !.done = TRUE, !.exc = r.exc, !.out = r.val]
  /\ MvKeep

MvNext == ConstructMultivariateDiracDelta \/ ConstructMultivariateCoefficients

SpecMv == MvInit /\ [][MvNext]_vars

\* C30: construct_multivariate_coefficients(field, step_fn, n) returns a
\* polynomial that evaluates to step_fn(x) at every x of field^n, and
\* construct_multivariate_dirac_delta(field, y, n) one that is 1 at x = y
\* and 0 at every other x of field^n.
C30_FunctionAsPolynomial ==
  /\ (mv.op = "dirac_delta" /\ mv.done) =>
       /\ mv.exc = "none"
       /\ \A x \in [1..mv.n -> 0..(mv.p - 1)] :
            MvEval(mv.p, mv.out, x) = IF x = mv.values THEN 1 ELSE 0
  /\ (mv.op = "coefficients" /\ mv.done) =>
       /\ mv.exc = "none"
       /\ \A x \in [1..mv.n -> 0..(mv.p - 1)] :
            MvEval(mv.p, mv.out, x)
              = MvStepFnCall(mv.step_fn, mv.p, mv.n, x).val

====
